---- MODULE Spec2Model ----
(***************************************************************************)
(* Model of the PlaceInRegions PythonPart (bmarciniec/place-in-regions):   *)
(* the region-string parser, the linear placement place_in_line, the       *)
(* polygonal placement place_by_polygon and the live preview.              *)
(*                                                                         *)
(* Strings are sequences of one-character strings.  Decimal numbers are    *)
(* integers counted in units of 1/Scale; the numbers of a region string    *)
(* with more fraction digits than Scale holds are counted in the finer     *)
(* unit UnitOf(string), so that every written digit is kept.  Python       *)
(* computes in binary floating point: a number of the program is the       *)
(* binary64 number nearest to the decimal of the model, and where a        *)
(* product of the parser is rounded twice the model counts in `ulps' how   *)
(* many binary64 numbers the program's number lies above that one.         *)
(***************************************************************************)
EXTENDS Integers, Sequences, FiniteSets, TLC

\* ------------------------------------------------------------------ bounds

\* Longest string of the exhaustive input alphabet enumeration.
MaxLen == 4

\* Most '+'-joined terms of a string built from TermPool.
MaxTerms == 3

RECURSIVE Pow10(_)
Pow10(n) == IF n <= 0 THEN 1 ELSE 10 * Pow10(n - 1)

\* An accepted string of MaxLen characters carries at most MaxLen - 3
\* fraction digits ('$', a digit, '.', fraction): every input is exact.
FracDigits == MaxLen - 3
Scale == Pow10(FracDigits)

\* ------------------------------------------------------------ characters

AsciiDigits == {"0", "1", "2", "3", "4", "5", "6", "7", "8", "9"}

\* A decimal digit outside ASCII: U+0665 ARABIC-INDIC DIGIT FIVE, named by
\* its code point.  \d of a str pattern and float() take it for the digit 5,
\* a Python literal does not.
ArabicIndicFive == "u0665"

\* The characters \d matches
Digits == AsciiDigits \cup {ArabicIndicFive}

DigitVal(c) ==
    CASE c = "0" -> 0 [] c = "1" -> 1 [] c = "2" -> 2 [] c = "3" -> 3
      [] c = "4" -> 4 [] c = "5" -> 5 [] c = "6" -> 6 [] c = "7" -> 7
      [] c = "8" -> 8 [] c = "9" -> 9 [] c = ArabicIndicFive -> 5

\* The line break
LineBreak == "\n"

\* str.count(c)
Count(s, c) == Cardinality({i \in 1..Len(s) : s[i] = c})

\* c in str
Contains(s, c) == \E i \in 1..Len(s) : s[i] = c

\* str.replace(a, b) for one-character a, b
Replace(s, a, b) == [i \in 1..Len(s) |-> IF s[i] = a THEN b ELSE s[i]]

\* str.split(sep): the pieces between the separators, empty pieces kept.
RECURSIVE SplitFrom(_, _, _, _)
SplitFrom(s, sep, i, cur) ==
    IF i > Len(s) THEN <<cur>>
    ELSE IF s[i] = sep THEN <<cur>> \o SplitFrom(s, sep, i + 1, <<>>)
    ELSE SplitFrom(s, sep, i + 1, Append(cur, s[i]))

Split(s, sep) == SplitFrom(s, sep, 1, <<>>)

\* ------------------------------------------------------------ the pattern
\* ^(\d+|\$)\*?(\d+(\.\d+)?)(\+(\d+|\$)\*?(\d+(\.\d+)?))*$
\* matched the way a backtracking matcher decides it: as the set of all
\* positions each sub-pattern can end at.

\* \d+ from position i: every position after one or more digits.
DigitsFrom(s, i) ==
    {j \in (i + 1)..(Len(s) + 1) : \A k \in i..(j - 1) : s[k] \in Digits}

\* (\d+|\$) from position i
CountFrom(s, i) ==
    DigitsFrom(s, i) \cup (IF i <= Len(s) /\ s[i] = "$" THEN {i + 1} ELSE {})

\* \*? from the positions P
StarFrom(s, P) == P \cup {p + 1 : p \in {q \in P : q <= Len(s) /\ s[q] = "*"}}

\* (\d+(\.\d+)?) from position i
NumberFrom(s, i) ==
    LET D == DigitsFrom(s, i)
    IN  D \cup UNION {IF d <= Len(s) /\ s[d] = "." THEN DigitsFrom(s, d + 1) ELSE {}
                      : d \in D}

\* (\d+|\$)\*?(\d+(\.\d+)?) from position i
TermFrom(s, i) == UNION {NumberFrom(s, j) : j \in StarFrom(s, CountFrom(s, i))}

\* (\+ term)* from the positions P: the closure under one more "+ term".
RECURSIVE MoreTerms(_, _)
MoreTerms(s, P) ==
    LET Q == P \cup UNION {IF p <= Len(s) /\ s[p] = "+" THEN TermFrom(s, p + 1) ELSE {}
                           : p \in P}
    IN  IF Q = P THEN P ELSE MoreTerms(s, Q)

\* re.match(pattern, string): the terms end where $ matches, at the end
\* of the string or before a line break that is its last character.
PatternMatches(s) ==
    LET ends == MoreTerms(s, TermFrom(s, 1))
    IN  \/ (Len(s) + 1) \in ends
        \/ Len(s) \in ends /\ s[Len(s)] = LineBreak

\* ------------------------------------------------------------ numbers

RECURSIVE IntVal(_)
IntVal(ds) ==
    IF Len(ds) = 0 THEN 0
    ELSE 10 * IntVal(SubSeq(ds, 1, Len(ds) - 1)) + DigitVal(ds[Len(ds)])

\* The white space float() and eval() skip: of what the pattern lets
\* through, the line break at the end.
Strip(tok) ==
    IF Len(tok) > 0 /\ tok[Len(tok)] = LineBreak
    THEN SubSeq(tok, 1, Len(tok) - 1)
    ELSE tok

Max(a, b) == IF a >= b THEN a ELSE b

\* The most fraction digits a number of the string is written with.
RECURSIVE LongestFraction(_, _)
LongestFraction(s, i) ==
    IF i > Len(s) THEN 0
    ELSE Max(IF s[i] = "." THEN Cardinality(DigitsFrom(s, i + 1)) ELSE 0,
             LongestFraction(s, i + 1))

\* The numbers of a string are counted in units of 1/UnitOf(string): 1/Scale,
\* or finer when the string is written with more fraction digits.
UnitOf(s) == Pow10(Max(FracDigits, LongestFraction(s, 1)))

\* float(token) of digits with an optional fraction, in units of 1/unit,
\* unit a power of ten with the fraction digits of the token or more.
\* Leading zeros and digits outside ASCII are accepted by float().
FloatOf(tok, unit) ==
    LET parts == Split(Strip(tok), ".")
        frac  == IF Len(parts) > 1 THEN parts[2] ELSE <<>>
    IN  IntVal(parts[1]) * unit
        + IntVal(frac) * (unit \div Pow10(Len(frac)))

\* A Python number literal: its digits are ASCII digits; a decimal integer
\* literal with a leading zero is a syntax error unless it is all zeros; a
\* float literal may have them.
LiteralOk(tok) ==
    /\ ~Contains(tok, ArabicIndicFive)
    /\ \/ Contains(tok, ".")
       \/ Len(tok) = 1
       \/ tok[1] # "0"
       \/ \A i \in 1..Len(tok) : tok[i] = "0"

\* ------------------------------------------------- binary floating point

\* 2^n
RECURSIVE Pow2(_)
Pow2(n) == IF n = 0 THEN 1 ELSE 2 * Pow2(n - 1)

\* Natural numbers too long for one integer: the digits to the base Limb
\* of 15 bits, the lowest first.
Limb == Pow2(15)

RECURSIVE BigOf(_)
BigOf(n) == IF n < Limb THEN <<n>> ELSE <<n % Limb>> \o BigOf(n \div Limb)

\* a * k for 0 <= k <= Limb, from digit i on
RECURSIVE BigTimesFrom(_, _, _, _)
BigTimesFrom(a, k, i, carry) ==
    IF i > Len(a) THEN (IF carry = 0 THEN <<>> ELSE <<carry>>)
    ELSE <<(a[i] * k + carry) % Limb>>
             \o BigTimesFrom(a, k, i + 1, (a[i] * k + carry) \div Limb)

\* a + b, from digit i on
RECURSIVE BigPlusFrom(_, _, _, _)
BigPlusFrom(a, b, i, carry) ==
    IF i > Len(a) /\ i > Len(b) THEN (IF carry = 0 THEN <<>> ELSE <<carry>>)
    ELSE LET v == (IF i <= Len(a) THEN a[i] ELSE 0)
                      + (IF i <= Len(b) THEN b[i] ELSE 0) + carry
         IN  <<v % Limb>> \o BigPlusFrom(a, b, i + 1, v \div Limb)

\* a * n for any n >= 0
RECURSIVE BigTimes(_, _)
BigTimes(a, n) ==
    IF n <= Limb THEN BigTimesFrom(a, n, 1, 0)
    ELSE BigPlusFrom(BigTimesFrom(a, n % Limb, 1, 0),
                     <<0>> \o BigTimes(a, n \div Limb), 1, 0)

\* The digits i..1 of a divided by d, 0 < d <= Limb, with the remainder
\* rem of the digits above: quotient and remainder.
RECURSIVE BigDivFrom(_, _, _, _)
BigDivFrom(a, d, i, rem) ==
    IF i = 0 THEN [q |-> <<>>, r |-> rem]
    ELSE LET rest == BigDivFrom(a, d, i - 1, (rem * Limb + a[i]) % d)
         IN  [q |-> Append(rest.q, (rem * Limb + a[i]) \div d), r |-> rest.r]

\* a \div d^k: the quotient, and whether anything was cut off
RECURSIVE BigDivPow(_, _, _)
BigDivPow(a, d, k) ==
    IF k = 0 THEN [q |-> a, cut |-> FALSE]
    ELSE LET once == BigDivFrom(a, d, Len(a), 0)
             rest == BigDivPow(once.q, d, k - 1)
         IN  [q |-> rest.q, cut |-> rest.cut \/ once.r # 0]

\* A quotient, and whether the division or one before it cut anything off
CutOff(divided, cut) == [q |-> divided.q, cut |-> cut \/ divided.r # 0]

\* a \div 2^j: the limbs cut off first, then the bits
BigShiftRightBits(limbs, j) ==
    CutOff(BigDivFrom(limbs.q, Pow2(j), Len(limbs.q), 0), limbs.cut)

BigShiftRight(a, j) == BigShiftRightBits(BigDivPow(a, Limb, j \div 15), j % 15)

\* a * 2^j
RECURSIVE BigShiftLeft(_, _)
BigShiftLeft(a, j) ==
    IF j >= 15 THEN <<0>> \o BigShiftLeft(a, j - 15)
    ELSE BigTimesFrom(a, Pow2(j), 1, 0)

\* The number of binary digits of n > 0 and of a (0 for zero)
RECURSIVE BitsOf(_)
BitsOf(n) == IF n = 0 THEN 0 ELSE 1 + BitsOf(n \div 2)

RECURSIVE BigBitsFrom(_, _)
BigBitsFrom(a, i) ==
    IF i = 0 THEN 0
    ELSE IF a[i] # 0 THEN 15 * (i - 1) + BitsOf(a[i])
    ELSE BigBitsFrom(a, i - 1)

BigBits(a) == BigBitsFrom(a, Len(a))

\* a - b for two numbers close to each other, as an integer
RECURSIVE BigMinusFrom(_, _, _, _)
BigMinusFrom(a, b, i, acc) ==
    IF i = 0 THEN acc
    ELSE BigMinusFrom(a, b, i - 1,
                      acc * Limb + (IF i <= Len(a) THEN a[i] ELSE 0)
                                 - (IF i <= Len(b) THEN b[i] ELSE 0))

BigMinus(a, b) == BigMinusFrom(a, b, IF Len(a) > Len(b) THEN Len(a) ELSE Len(b), 0)

\* A binary64 number m * 2^e, 2^52 <= m < 2^53.
Binary64(m, e) == [m |-> m, e |-> e]

\* A mantissa rounded up to 2^53 is 2^52 in the next binade.
Normalised(m, e) ==
    IF BigBits(m) = 54 THEN Binary64(BigDivFrom(m, 2, Len(m), 0).q, e + 1)
    ELSE Binary64(m, e)

\* The last of 54 leading bits rounded off: to nearest, ties to even
RoundHalved(halved, inexact, e) ==
    Normalised(IF halved.r = 1 /\ (inexact \/ halved.q[1] % 2 = 1)
               THEN BigPlusFrom(halved.q, <<1>>, 1, 0)
               ELSE halved.q,
               e)

\* The 54 leading bits of a number, and whether bits were cut off behind
RoundKept(kept, inexact, e) ==
    RoundHalved(BigDivFrom(kept.q, 2, Len(kept.q), 0), inexact \/ kept.cut, e)

RoundWide(wide, t, inexact, e) ==
    RoundKept(BigShiftRight(wide, t), inexact, e + t - 1)

\* The binary64 number nearest to a * 2^e, a >= 2^52, or to a number above
\* it by less than 2^e when inexact: the number widened by two bits, its 54
\* leading bits kept, and the last of them rounded off.
RoundBits(wide, inexact, e) == RoundWide(wide, BigBits(wide) - 54, inexact, e)

RoundToBinary64(a, e, inexact) == RoundBits(BigShiftLeft(a, 2), inexact, e)

\* float of the decimal p / 10^k, p > 0: the quotient p * 2^(56 + 4k) \div
\* 10^k has more than 53 bits, and is rounded once.
FloatOfScaled(scaled, e) == RoundToBinary64(scaled.q, e, scaled.cut)

FloatOfDecimal(p, k) ==
    FloatOfScaled(BigDivPow(BigShiftLeft(p, 56 + 4 * k), 10, k), 0 - (56 + 4 * k))

\* n * x in binary64, n an integer and x a binary64 number
TimesBinary64(n, x) == RoundToBinary64(BigTimes(x.m, n), x.e, FALSE)

TwoTo52 == BigShiftLeft(<<1>>, 52)
TwoTo53 == BigShiftLeft(<<1>>, 53)

\* How many binary64 numbers x lies above y (below, when negative), x and y
\* in the same or in neighbouring binades
StepsAbove(x, y) ==
    IF x.e = y.e THEN BigMinus(x.m, y.m)
    ELSE IF x.e = y.e + 1 THEN BigMinus(TwoTo53, y.m) + BigMinus(x.m, TwoTo52)
    ELSE 0 - (BigMinus(TwoTo53, x.m) + BigMinus(y.m, TwoTo52))

\* The product n * (p / 10^k) as Python computes it: how many binary64
\* numbers it lies above the one nearest to the decimal n * p / 10^k.
\* The products by 0 and by 1 are exact.
UlpsOfProduct(n, p, k) ==
    IF n <= 1 \/ p = 0 THEN 0
    ELSE StepsAbove(TimesBinary64(n, FloatOfDecimal(BigOf(p), k)),
                    FloatOfDecimal(BigTimes(BigOf(p), n), k))

\* The digits of a literal without its point, and its fraction digits
Numerator(tok) ==
    LET parts == Split(Strip(tok), ".")
    IN  IntVal(IF Len(parts) > 1 THEN parts[1] \o parts[2] ELSE parts[1])

FractionDigits(tok) ==
    LET parts == Split(Strip(tok), ".")
    IN  IF Len(parts) > 1 THEN Len(parts[2]) ELSE 0

\* eval(expr) of a term the pattern lets through after '$' became '1':
\* one literal, or integer literal * literal.  The value is the decimal in
\* units of 1/unit; a product of two integers is exact, the product of an
\* integer and a float literal is the binary64 product of the count and
\* the float nearest to the literal, `ulps' binary64 numbers above the
\* float nearest to the decimal product.
SyntaxError == [kind |-> "SyntaxError"]
Value(v, ulps) == [kind |-> "value", val |-> v, ulps |-> ulps]

EvalTerm(expr, unit) ==
    LET f == Split(Strip(expr), "*")
    IN  IF \E i \in 1..Len(f) : ~LiteralOk(f[i]) THEN SyntaxError
        ELSE IF Len(f) = 1 THEN Value(FloatOf(f[1], unit), 0)
        ELSE Value((FloatOf(f[1], unit) * FloatOf(f[2], unit)) \div unit,
                   IF Contains(f[2], ".")
                   THEN UlpsOfProduct(IntVal(f[1]), Numerator(f[2]),
                                      FractionDigits(f[2]))
                   ELSE 0)

\* ------------------------------------------------------------ the parser

\* The tuple of a term with '$', e being what eval made of it: the region
\* of length 0.0, or the syntax error of eval.
OpenRegion(e, bar_diameter) ==
    IF e.kind = "SyntaxError" THEN e
    ELSE Value(<<0, e.val, bar_diameter>>, <<0, e.ulps, 0>>)

\* The tuple of a term with '*', e being what eval made of it
CountedRegion(e, spacing, bar_diameter) ==
    IF e.kind = "SyntaxError" THEN e
    ELSE Value(<<e.val, spacing, bar_diameter>>, <<e.ulps, 0, 0>>)

\* The same loop body with the spacing of a term N*S read from the wrong
\* side of the '*' (the count).
RegionOfTerm_SpacingFromCount(region_string, bar_diameter, unit) ==
    IF Contains(region_string, "$")
    THEN OpenRegion(EvalTerm(Replace(region_string, "$", "1"), unit), bar_diameter)
    ELSE IF Contains(region_string, "*")
    THEN CountedRegion(EvalTerm(region_string, unit),
                       FloatOf(Split(region_string, "*")[1], unit), bar_diameter)
    ELSE Value(<<FloatOf(region_string, unit), FloatOf(region_string, unit),
                 bar_diameter>>, <<0, 0, 0>>)

\* One iteration of the loop over the terms: the region of one term, or
\* the syntax error eval raises.
RegionOfTerm(region_string, bar_diameter, unit) ==
    IF Contains(region_string, "$")
    THEN OpenRegion(EvalTerm(Replace(region_string, "$", "1"), unit), bar_diameter)
    ELSE IF Contains(region_string, "*")
    THEN CountedRegion(EvalTerm(region_string, unit),
                       FloatOf(Split(region_string, "*")[2], unit), bar_diameter)
    ELSE Value(<<FloatOf(region_string, unit), FloatOf(region_string, unit),
                 bar_diameter>>, <<0, 0, 0>>)

\* The same check without the count of '$'.
StringIsValid_PatternOnly(s) == PatternMatches(s)

\* The check that guards the parser: the pattern and exactly one '$'.
StringIsValid(s) == PatternMatches(s) /\ Count(s, "$") = 1

\* The call ending with the exception e
Raised(e) == [kind |-> e, regions |-> <<>>]

\* The returned list; its numbers are counted in units of 1/unit, and
\* ulps[i][j] tells how many binary64 numbers the j-th number of the i-th
\* tuple lies above the one nearest to regions[i][j].
Returned(r, unit, ulps) ==
    [kind |-> "regions", regions |-> r, unit |-> unit, ulps |-> ulps]

\* The list the loop over the terms builds, or the syntax error of the
\* first eval that raises one.
RegionList(r, unit) ==
    IF \E i \in 1..Len(r) : r[i].kind = "SyntaxError"
    THEN Raised("SyntaxError")
    ELSE Returned([i \in 1..Len(r) |-> r[i].val], unit,
                  [i \in 1..Len(r) |-> r[i].ulps])

\* placement_regions_from_string(string, diameter), the diameter handed
\* over in units of 1/Scale
placement_regions_from_string(s, bar_diameter) ==
    IF ~StringIsValid(s) THEN Raised("ValueError")
    ELSE LET strings == Split(s, "+")
             unit == UnitOf(s)
             d == bar_diameter * (unit \div Scale)
         IN  RegionList([i \in 1..Len(strings) |-> RegionOfTerm(strings[i], d, unit)],
                        unit)

\* ------------------------------------------------------------ geometry
\* Points and vectors are <<x, y, z>> in units of 1/Scale.  The lines and
\* shapes of the model are parallel to the coordinate axes, so lengths and
\* unit vectors stay integers.

Abs(n) == IF n < 0 THEN -n ELSE n
Sgn(n) == IF n < 0 THEN -1 ELSE IF n > 0 THEN 1 ELSE 0

VAdd(a, b) == <<a[1] + b[1], a[2] + b[2], a[3] + b[3]>>
VSub(a, b) == <<a[1] - b[1], a[2] - b[2], a[3] - b[3]>>
VDot(a, b) == a[1] * b[1] + a[2] * b[2] + a[3] * b[3]
VTimes(a, k) == <<a[1] * k, a[2] * k, a[3] * k>>

\* Vector3D.GetLength() of an axis-parallel vector
VLength(v) == Abs(v[1]) + Abs(v[2]) + Abs(v[3])

\* the unit vector of an axis-parallel vector
VUnit(v) == <<Sgn(v[1]), Sgn(v[2]), Sgn(v[3])>>

\* A Matrix3D: rotation rows r and translation t; point * matrix.
Matrix(r, t) == [r |-> r, t |-> t]
IdentityMatrix == Matrix(<< <<1, 0, 0>>, <<0, 1, 0>>, <<0, 0, 1>> >>, <<0, 0, 0>>)

Rotate(m, v) == <<VDot(m.r[1], v), VDot(m.r[2], v), VDot(m.r[3], v)>>
Transform(m, p) == VAdd(Rotate(m, p), m.t)

\* Matrix3D.Reverse() of a rotation and translation: the inverse.
Reverse(m) ==
    LET rt == << <<m.r[1][1], m.r[2][1], m.r[3][1]>>,
                 <<m.r[1][2], m.r[2][2], m.r[3][2]>>,
                 <<m.r[1][3], m.r[2][3], m.r[3][3]>> >>
        inv == Matrix(rt, <<0, 0, 0>>)
    IN  Matrix(rt, VTimes(Rotate(inv, m.t), -1))

\* BendingShape.Move(vector): every vertex of the shape polyline is moved.
Move(polyline, v) == [i \in 1..Len(polyline) |-> VAdd(polyline[i], v)]

\* Polyline3D * matrix
TransformPolyline(polyline, m) ==
    [i \in 1..Len(polyline) |-> Transform(m, polyline[i])]

\* Polyline3D.IsPlanar(): the plane of the polyline, a point of it and its
\* unit normal.
Axes == {<<1, 0, 0>>, <<0, 1, 0>>, <<0, 0, 1>>}

IsPlanar(polyline) ==
    [Point  |-> polyline[1],
     Vector |-> CHOOSE n \in Axes :
                    \A i \in 1..Len(polyline) :
                        VDot(VSub(polyline[i], polyline[1]), n) = 0]

\* ------------------------------------------------------------ the objects
\* BendingShape objects live in the heap; a variable or a BarPlacement
\* holds the id of one.  A free id holds the empty polyline.

ObjIds == 1..12
Free == <<>>
EmptyHeap == [i \in ObjIds |-> Free]

NewId(h) == CHOOSE i \in ObjIds : h[i] = Free /\ \A j \in ObjIds : j < i => h[j] # Free

\* AllplanReinf.BendingShape(shape): a new object with a copy of the polyline.
\* The pair <<heap, id>>.
CopyShape(h, polyline) == <<[h EXCEPT ![NewId(h)] = polyline], NewId(h)>>

\* The ids the BarPlacements of a list hold.
ShapeIds(list) ==
    {list[i].start_shape : i \in 1..Len(list)}
        \cup ({list[i].end_shape : i \in 1..Len(list)} \ {0})

Release(h, ids) == [i \in ObjIds |-> IF i \in ids THEN Free ELSE h[i]]

\* The local variables ids of a method go out of scope: their objects are
\* gone but for those a BarPlacement of the list holds.
OutOfScope(h, ids, list) == Release(h, ids \ ShapeIds(list))

\* ------------------------------------------------------------ the inputs

\* The characters of the exhaustive enumeration.
Alphabet == {"0", "1", "5", "*", "+", "$", ".", LineBreak, ArabicIndicFive}

RECURSIVE StringsOfLen(_)
StringsOfLen(n) ==
    IF n = 0 THEN {<<>>}
    ELSE {Append(s, c) : s \in StringsOfLen(n - 1), c \in Alphabet}

ShortStrings == UNION {StringsOfLen(n) : n \in 0..MaxLen}

\* Terms, well formed and not, that the longer strings are joined from.
TermPool ==
    { <<"5", "*", "1", "0", "0">>,
      <<"1", "0", "*", "1", "2", "5">>,
      <<"2", "*", "1", "0", "0">>,
      <<"$", "*", "2", "5", "0">>,
      <<"$", "*", "1", "2", "5">>,
      <<"$", "*", "1", "0", "0">>,
      <<"$", "*", "2", "0", "0">>,
      <<"$", "2", "5", "0">>,
      <<"0", "*", "1", "0", "0">>,
      <<"5", "*", "0">>,
      <<"5">>,
      <<"0", "5", "*", "1", "0", "0">>,
      <<"$", "*", "0", "5">>,
      <<"1", "2", ".", "5">>,
      <<"3", "*", "0", ".", "1">>,
      <<"$", "*", "1", ".", "2", "5">> }

RECURSIVE Joined(_)
Joined(n) ==
    IF n = 1 THEN TermPool
    ELSE {s \o <<"+">> \o t : s \in Joined(n - 1), t \in TermPool}

PoolStrings == UNION {Joined(n) : n \in 1..MaxTerms}

InputStrings == ShortStrings \cup PoolStrings

\* The values of the palette parameter RegionsString the placement runs use.
S_2x100_open200 == <<"2", "*", "1", "0", "0", "+", "$", "*", "2", "0", "0">>
S_three_regions ==
    <<"5", "*", "1", "0", "0", "+", "1", "0", "*", "1", "2", "5", "+",
      "$", "*", "2", "5", "0">>
S_no_open == <<"5", "*", "1", "0", "0", "+", "1", "0", "*", "1", "2", "5">>
S_two_open ==
    <<"5", "*", "1", "0", "0", "+", "$", "*", "1", "2", "5", "+",
      "$", "*", "1", "0", "0">>
S_open250 == <<"$", "*", "2", "5", "0">>
S_nostar == <<"5", "*", "1", "0", "0", "+", "$", "2", "0", "0">>
S_zero_count == <<"0", "*", "1", "0", "0", "+", "$", "*", "2", "0", "0">>
S_zero_spacing == <<"5", "*", "0", "+", "$", "*", "2", "0", "0">>
S_single_digit == <<"5", "+", "$", "*", "1", "0", "0">>
S_leading_zero == <<"0", "5", "*", "1", "0", "0", "+", "$", "*", "2", "0", "0">>

\* a spacing with two fraction digits: 5 * 1.25 = 6.25
S_fraction ==
    <<"5", "*", "1", ".", "2", "5", "+", "$", "*", "2", "0", "0">>

PlaceStrings ==
    {S_2x100_open200, S_three_regions, S_no_open, S_leading_zero, S_fraction}

\* ------------------------------------------------------------ the state

VARIABLES
    string,         \* the region string handed to the parser
    diameter,       \* the diameter handed to the parser
    parse_result,   \* what placement_regions_from_string did with them
    bar_data,       \* PlacementInRegions.bar_data: Position and Diameter
    covers,         \* PlacementInRegions.start_cover and end_cover
    world_to_uvs,   \* PlacementInRegions._uvs_trans: the matrix of the shape's view
    cut_line,       \* PolygonalPlacementInRegions.cut_line, a Line2D object
    placements,     \* PlacementInRegions._placements
    heap,           \* the BendingShape objects alive: id -> shape polyline
    pc,             \* where the running method stands
    frame,          \* the running method's arguments and local variables
    last,           \* how the last finished call ended
    read,           \* what the last read of the placements property gave
    util_call,      \* the utility called on its own, and its arguments
    util_outcome,   \* what that call returned, raised and left behind
    script_object,  \* the PlaceInRegions script object and its palette
    script_object_interactor,   \* PlaceInRegions.script_object_interactor
    handled         \* the last event of the input and how its handler ended

vars == <<string, diameter, parse_result, bar_data, covers, world_to_uvs,
          cut_line, placements, heap, pc, frame, last, read,
          util_call, util_outcome, script_object, script_object_interactor,
          handled>>

parse_vars == <<string, diameter, parse_result>>
config_vars == <<bar_data, covers, world_to_uvs>>
place_vars == <<config_vars, cut_line, placements, heap, pc, frame, last, read>>
input_vars == <<script_object, script_object_interactor, handled>>
util_vars == <<util_call, util_outcome, input_vars>>

\* ------------------------------------------------------------ the parser run

NotCalled == [kind |-> "not called", regions |-> <<>>]
NoLine == [StartPoint |-> <<0, 0>>, EndPoint |-> <<0, 0>>]
NoFrame == [op |-> "none"]
NoUtilCall == [op |-> "none"]
NoScriptObject == [current_mode |-> "none"]
NoInteractor == [kind |-> "None"]
NoEvent ==
    [event |-> "none", mouse_msg |-> "none", returned |-> "None",
     preview |-> [StartPoint |-> <<0, 0, 0>>, EndPoint |-> <<0, 0, 0>>]]
NoInput ==
    /\ script_object = NoScriptObject
    /\ script_object_interactor = NoInteractor
    /\ handled = NoEvent
NoCall == [op |-> "none", caller |-> "none", args |-> <<>>, status |-> "none",
           repeat |-> FALSE, result |-> <<>>]

Diameters == {10 * Scale, 12 * Scale}

InitParse ==
    /\ string \in InputStrings
    /\ diameter \in Diameters
    /\ parse_result = NotCalled
    /\ bar_data = [Position |-> 1, Diameter |-> 10 * Scale]
    /\ covers = [start |-> 30 * Scale, end |-> 30 * Scale]
    /\ world_to_uvs = IdentityMatrix
    /\ cut_line = NoLine
    /\ placements = <<>>
    /\ heap = EmptyHeap
    /\ pc = "idle"
    /\ frame = NoFrame
    /\ last = NoCall
    /\ read = "none"
    /\ util_call = NoUtilCall
    /\ util_outcome = NotCalled
    /\ NoInput

\* PlacementInRegions.placement_regions_from_string(string, diameter)
ParseCall ==
    /\ parse_result = NotCalled
    /\ parse_result' = placement_regions_from_string(string, diameter)
    /\ UNCHANGED <<string, diameter, place_vars, util_vars>>

NextParse == ParseCall

SpecParse == InitParse /\ [][NextParse]_vars

\* ------------------------------------------------------------ the shape

\* The cover place_in_line hands to the layout, in mm.
HardCodedCover == 30

\* The geometry of the selected bars representation line: a closed stirrup
\* in the coordinates of its view, 200 wide and 400 high.
ShapePolygon2D ==
    << <<0, 0>>, <<200 * Scale, 0>>, <<200 * Scale, 400 * Scale>>,
       <<0, 400 * Scale>>, <<0, 0>> >>

\* A section view: its x axis is the world z axis, its y axis the world y
\* axis, so that a shape drawn in it is normal to the world x axis.
SectionToWorld ==
    Matrix(<< <<0, 0, -1>>, <<0, 1, 0>>, <<1, 0, 0>> >>, <<0, 0, 0>>)

\* The cut lines drawn over the shape, in the coordinates of its view: through
\* the middle of the stirrup in either direction, and above all of it.
Line2D(a, b) == [StartPoint |-> a, EndPoint |-> b]
CutToRight == Line2D(<<-100 * Scale, 200 * Scale>>, <<300 * Scale, 200 * Scale>>)
CutToLeft == Line2D(<<300 * Scale, 200 * Scale>>, <<-100 * Scale, 200 * Scale>>)
CutAbove == Line2D(<<-100 * Scale, 500 * Scale>>, <<300 * Scale, 500 * Scale>>)

\* UvsTransformation.uvs_to_world of the transformation that holds the
\* matrix to_uvs as world_to_uvs
uvs_to_world(to_uvs) == Reverse(to_uvs)

\* PlacementInRegions.bending_shape of a placement object whose _uvs_trans
\* holds to_uvs: the polyline of the shape, in world coordinates, built anew
\* from the element on every read.
bending_shape(to_uvs) ==
    TransformPolyline([i \in 1..Len(ShapePolygon2D) |->
                           <<ShapePolygon2D[i][1], ShapePolygon2D[i][2], 0>>],
                      uvs_to_world(to_uvs))

\* PlacementInRegions._project_shape_on_point: the polyline moved along the
\* normal of its plane onto the plane through to_point.
project_shape_on_point(polyline, to_point) ==
    LET shape_plane == IsPlanar(polyline)
        vec == VSub(to_point, shape_plane.Point)
    IN  Move(polyline, VTimes(shape_plane.Vector, VDot(vec, shape_plane.Vector)))

\* ------------------------------------------------------------ the layout
\* LinearBarBuilder.calculate_length_of_regions is library code: modelled
\* from the specification of the Linear Region Layout.  The open region is
\* the one of length 0; it gets what the closed regions leave of the usable
\* length.  The specification is silent on a list with another number of
\* zero-length regions than one; the model lets the layout fail on it.

RECURSIVE SumOfLengths(_, _)
SumOfLengths(value_list, n) ==
    IF n = 0 THEN 0 ELSE SumOfLengths(value_list, n - 1) + value_list[n][1]

calculate_length_of_regions(value_list, from_point, to_point, cover_left, cover_right) ==
    LET n == Len(value_list)
        open == {i \in 1..n : value_list[i][1] = 0}
        usable == VLength(VSub(to_point, from_point)) - cover_left - cover_right
        rest == usable - SumOfLengths(value_list, n)
        resolved == [i \in 1..n |-> IF i \in open THEN <<rest>> ELSE value_list[i]]
        dir == VUnit(VSub(to_point, from_point))
        at(d) == VAdd(from_point, VTimes(dir, d))
    IN  IF Cardinality(open) # 1 THEN [kind |-> "RegionsInvalid", pairs |-> <<>>]
        ELSE IF rest < 0 THEN [kind |-> "RegionOverflow", pairs |-> <<>>]
        ELSE [kind |-> "pairs",
              pairs |-> [i \in 1..n |->
                  <<at(cover_left + SumOfLengths(resolved, i - 1)),
                    at(cover_left + SumOfLengths(resolved, i))>>]]

\* ------------------------------------------------------------ placements

\* The position number of the idx-th placement (idx from 0).
PositionNumber_Same(position, idx) == position

PositionNumber_Skipping(position, idx) == position + 2 * idx

PositionNumber(position, idx) == position + idx

\* A BarPlacement holds the shape objects handed to its constructor.  The
\* pair <<heap, placement>>.
\* LinearBarBuilder.create_linear_bar_placement_from_to_by_dist: one shape,
\* laid from from_point to to_point at bar_distance; end_shape 0 is none.
\* The numbers of the placement and of its shape are counted in units of
\* 1/unit.
LinearBarPlacement(h, position, shape, from_point, to_point, bar_distance, unit) ==
    <<h, [position |-> position, start_shape |-> shape, end_shape |-> 0,
          from |-> from_point, to |-> to_point,
          bar_distance |-> bar_distance, unit |-> unit]>>

\* AllplanReinf.BarPlacement(position, bar_count, start_shape, end_shape)
PolygonalBarPlacement(h, position, bar_count, start_shape, end_shape) ==
    <<h, [position |-> position, bar_count |-> bar_count,
          start_shape |-> start_shape, end_shape |-> end_shape]>>

\* BarPlacement.Transform(matrix): the shapes of the placement transformed.
TransformPlacement(h, placement, m) ==
    [h EXCEPT ![placement.start_shape] = TransformPolyline(h[placement.start_shape], m),
              ![placement.end_shape] = TransformPolyline(h[placement.end_shape], m)]

\* What a list of placements holds, the shapes looked up.
PlacementValues(list, h) ==
    [i \in 1..Len(list) |->
        [list[i] EXCEPT !.start_shape = h[list[i].start_shape],
                        !.end_shape = IF list[i].end_shape = 0 THEN Free
                                      ELSE h[list[i].end_shape]]]

\* self._placements.clear(): the list emptied, its placements gone.  The
\* pair <<heap, list>>.
clear_Nothing(h, list) == <<h, list>>

clear(h, list) == <<Release(h, ShapeIds(list)), <<>> >>

\* How a call ends: normally or with the exception that leaves it.
Ended(f, status, list, h) ==
    [op |-> f.op, caller |-> f.caller, args |-> f.args, status |-> status,
     repeat |-> f.repeat, result |-> PlacementValues(list, h)]

IsRepeat(op, args) == last.op = op /\ last.args = args /\ last.status = "returned"

\* The placements property: RuntimeError on an empty list.
PlacementsProperty(list) == IF list = <<>> THEN "RuntimeError" ELSE "returned"

\* ------------------------------------------------------------ place_in_line

\* The placement lines: the line of the interactor, start and end point.
Line(a, b) == [StartPoint |-> a, EndPoint |-> b]

Lines ==
    { Line(<<0, 0, 0>>, <<1000 * Scale, 0, 0>>),
      Line(<<0, 0, 0>>, <<2000 * Scale, 0, 0>>),
      Line(<<1000 * Scale, 100 * Scale, 0>>, <<0, 100 * Scale, 0>>) }

Callers == {"place_in_line", "generate_preview_placements"}

\* The call of the layout in place_in_line: the covers are 30 and 30.  The
\* regions and the line are counted in units of 1/unit.
region_start_end_points_NoCovers(placement_regions, placement_line, unit) ==
    calculate_length_of_regions(placement_regions, placement_line.StartPoint,
                                placement_line.EndPoint, 0, 0)

region_start_end_points(placement_regions, placement_line, unit) ==
    calculate_length_of_regions(placement_regions, placement_line.StartPoint,
                                placement_line.EndPoint,
                                HardCodedCover * unit, HardCodedCover * unit)

\* The geometry, counted in units of 1/Scale, in the unit of the regions of
\* a string, which is 1/Scale or finer: no digit of the string is lost.
PointInUnit(p, unit) == VTimes(p, unit \div Scale)

\* A line in the unit of the regions
LineInUnit(l, unit) ==
    Line(PointInUnit(l.StartPoint, unit), PointInUnit(l.EndPoint, unit))

\* A polyline in the unit of the regions
PolylineInUnit(polyline, unit) ==
    [i \in 1..Len(polyline) |-> PointInUnit(polyline[i], unit)]

\* The values of RegionsString in the palette: three regions that need a
\* line of 1810 mm, and regions without an open one, which the parser rejects.
RegionsStrings == {S_three_regions, S_no_open}

\* The diameter of the shape of the selected bar
SelectedBarDiameter == 10 * Scale

\* placement_regions_from_string(regions_string, diameter) for the values of
\* the palette and the selected bar, computed once
ParsedRegionsString ==
    [s \in RegionsStrings |-> placement_regions_from_string(s, SelectedBarDiameter)]

\* self.placement_regions_from_string(regions_string, diameter) in
\* place_in_line
ParsedRegions(regions_string, bar_diameter) ==
    IF regions_string \in RegionsStrings /\ bar_diameter = SelectedBarDiameter
    THEN ParsedRegionsString[regions_string]
    ELSE placement_regions_from_string(regions_string, bar_diameter)

\* The local variables of place_in_line before its loop, c being the heap
\* with the copy of the shape and layout what calculate_length_of_regions
\* did.  status tells how this ends: with the exception of the parser or
\* of the layout, or in the loop, before which the list is cleared.
place_in_line_laid_out(c, parsed, line, layout, unit) ==
    [status |-> IF parsed.kind # "regions" THEN parsed.kind
                ELSE IF layout.kind # "pairs" THEN layout.kind
                ELSE "loop",
     heap |-> [c[1] EXCEPT ![c[2]] =
                  project_shape_on_point(c[1][c[2]], line.StartPoint)],
     moved_shape |-> c[2],
     placement_regions |-> parsed.regions,
     region_start_end_points |-> layout.pairs,
     unit |-> unit]

\* The lines of place_in_line before its loop, shape and line counted in
\* the unit of the regions
place_in_line_in_unit(h, to_uvs, parsed, line, unit) ==
    place_in_line_laid_out(CopyShape(h, PolylineInUnit(bending_shape(to_uvs), unit)),
                           parsed, line,
                           region_start_end_points(parsed.regions, line, unit),
                           unit)

\* The unit of the regions of a string; 1/Scale when the parser raised
UnitOfParsed(parsed) == IF parsed.kind = "regions" THEN parsed.unit ELSE Scale

\* place_in_line up to the loop, parsed being what
\* placement_regions_from_string did with the string: the shape copied on
\* the heap h and projected on the start point, the regions laid out.
place_in_line_begin(h, to_uvs, parsed, placement_line) ==
    place_in_line_in_unit(h, to_uvs, parsed,
                          LineInUnit(placement_line, UnitOfParsed(parsed)),
                          UnitOfParsed(parsed))

\* The end of a turn of the loop of place_in_line: the placement bp[2],
\* made on the heap bp[1], is appended to the list and the shape moved to
\* the start of the next region, if any.
place_in_line_appended(bp, list, i, f) ==
    [heap |-> IF i < Len(f.region_start_end_points)
              THEN [bp[1] EXCEPT ![f.moved_shape] =
                       Move(bp[1][f.moved_shape],
                            VSub(f.region_start_end_points[i + 1][1],
                                 f.region_start_end_points[i][1]))]
              ELSE bp[1],
     placements |-> Append(list, bp[2]),
     idx |-> i]

\* One turn of the loop of place_in_line, f holding the local variables of
\* the call: the placement of region idx is made and appended.
place_in_line_turn(h, list, position, f) ==
    place_in_line_appended(
        LinearBarPlacement(h, PositionNumber(position, f.idx), f.moved_shape,
                           f.region_start_end_points[f.idx + 1][1],
                           f.region_start_end_points[f.idx + 1][2],
                           f.placement_regions[f.idx + 1][2], f.unit),
        list, f.idx + 1, f)

\* The loop of place_in_line from the turn at.idx on, at holding heap, list
\* and idx, and the return.
RECURSIVE place_in_line_loop(_, _, _)
place_in_line_loop(at, position, f) ==
    IF at.idx = Len(f.region_start_end_points)
    THEN [heap |-> OutOfScope(at.heap, {f.moved_shape}, at.placements),
          placements |-> at.placements]
    ELSE place_in_line_loop(
             place_in_line_turn(at.heap, at.placements, position,
                                [f EXCEPT !.idx = at.idx]),
             position, f)

\* The placement object with the list a loop has built, the placements
\* holding their shapes
WithPlacements(self, done) ==
    [self EXCEPT !.placements = PlacementValues(done.placements, done.heap)]

\* place_in_line from the loop on, begun being what the lines before it
\* did: an exception of the parser or the layout leaves the list as it was.
place_in_line_end(self, begun) ==
    IF begun.status # "loop" THEN [status |-> begun.status, self |-> self]
    ELSE [status |-> "returned",
          self |-> WithPlacements(self,
                       place_in_line_loop(
                           [heap |-> begun.heap, placements |-> <<>>, idx |-> 0],
                           self.bar_data.Position,
                           [idx |-> 0, moved_shape |-> begun.moved_shape,
                            placement_regions |-> begun.placement_regions,
                            region_start_end_points |-> begun.region_start_end_points,
                            unit |-> begun.unit]))]

\* PlacementInRegions.place_in_line(regions_string, placement_line) as one
\* step, on a placement object self that holds its placements with their
\* shapes: how the call ends, and the object after it.
place_in_line(self, regions_string, placement_line) ==
    place_in_line_end(self,
        place_in_line_begin(EmptyHeap, self.uvs_trans,
                            ParsedRegions(regions_string, self.bar_data.Diameter),
                            placement_line))

\* place_in_line up to the loop: the shape copied and projected on the
\* start point, the string parsed, the regions laid out, the list cleared.
\* An exception of the parser or the layout leaves the method at once.
PlaceInLineBegin(regions_string, placement_line, caller) ==
    /\ pc = "idle"
    /\ \E begun \in {place_in_line_begin(heap, world_to_uvs,
                        ParsedRegions(regions_string, bar_data.Diameter),
                        placement_line)} :
       LET cleared == clear(begun.heap, placements)
           f == [op |-> "place_in_line", caller |-> caller,
                 args |-> <<regions_string, placement_line>>,
                 repeat |-> IsRepeat("place_in_line", <<regions_string, placement_line>>),
                 moved_shape |-> begun.moved_shape,
                 placement_regions |-> begun.placement_regions,
                 region_start_end_points |-> begun.region_start_end_points,
                 unit |-> begun.unit,
                 idx |-> 0]
       IN  IF begun.status # "loop"
           THEN /\ last' = Ended(f, begun.status, placements, heap)
                /\ UNCHANGED <<placements, heap, pc, frame>>
           ELSE /\ placements' = cleared[2]
                /\ heap' = cleared[1]
                /\ pc' = "line_loop"
                /\ frame' = f
                /\ UNCHANGED last
    /\ read' = "none"
    /\ UNCHANGED <<parse_vars, util_vars, config_vars, cut_line>>

\* One turn of the loop of place_in_line.
PlaceInLineStep ==
    /\ pc = "line_loop"
    /\ frame.idx < Len(frame.region_start_end_points)
    /\ \E turn \in {place_in_line_turn(heap, placements, bar_data.Position, frame)} :
           /\ placements' = turn.placements
           /\ heap' = turn.heap
           /\ frame' = [frame EXCEPT !.idx = turn.idx]
    /\ UNCHANGED <<parse_vars, util_vars, config_vars, cut_line, pc, last, read>>

\* The loop is through: place_in_line returns, and its caller
\* generate_preview_placements reads the placements property.
PlaceInLineReturn ==
    /\ pc = "line_loop"
    /\ frame.idx = Len(frame.region_start_end_points)
    /\ pc' = "idle"
    /\ heap' = OutOfScope(heap, {frame.moved_shape}, placements)
    /\ last' = Ended(frame,
                     IF frame.caller = "generate_preview_placements"
                     THEN PlacementsProperty(placements) ELSE "returned",
                     placements, heap)
    /\ frame' = NoFrame
    /\ UNCHANGED <<parse_vars, util_vars, config_vars, cut_line, placements, read>>

\* A read of the placements property between two calls.
ReadPlacements ==
    /\ pc = "idle"
    /\ read = "none"
    /\ read' = PlacementsProperty(placements)
    /\ UNCHANGED <<parse_vars, util_vars, config_vars, cut_line, placements, heap, pc, frame,
                   last>>
\* ------------------------------------------------------------ distortion

\* BendingShapeDistortionUtil.get_distortion_dimension: the extent of the
\* shape along the distortion vector, an axis.
get_distortion_dimension(polyline, distortion_vector) ==
    LET along == {VDot(polyline[i], distortion_vector) : i \in 1..Len(polyline)}
        hi == CHOOSE m \in along : \A x \in along : x <= m
        lo == CHOOSE m \in along : \A x \in along : m <= x
    IN  hi - lo

\* distort_shape moving every vertex, marked or not
distort_shape_MovesAll(top_vertices, distortion_vector, polyline, new_dimension) ==
    IF top_vertices = {} \/ \E i \in top_vertices : i >= Len(polyline)
    THEN [kind |-> "ValueError", polyline |-> polyline]
    ELSE [kind |-> "distorted",
          polyline |-> Move(polyline,
                            VTimes(distortion_vector,
                                   new_dimension
                                       - get_distortion_dimension(polyline, distortion_vector)))]

\* distort_shape without the check of the indices
distort_shape_NoCheck(top_vertices, distortion_vector, polyline, new_dimension) ==
    [kind |-> "distorted",
     polyline |-> [i \in 1..Len(polyline) |->
                     IF (i - 1) \in top_vertices
                     THEN VAdd(polyline[i],
                               VTimes(distortion_vector,
                                      new_dimension
                                          - get_distortion_dimension(polyline,
                                                                     distortion_vector)))
                     ELSE polyline[i]]]

\* BendingShapeDistortionUtil.distort_shape: the marked vertices (indices
\* from 0) moved along the distortion vector; max() of no index and an
\* index beyond the polyline raise ValueError before anything is moved.
distort_shape(top_vertices, distortion_vector, polyline, new_dimension) ==
    IF top_vertices = {} \/ \E i \in top_vertices : i >= Len(polyline)
    THEN [kind |-> "ValueError", polyline |-> polyline]
    ELSE LET difference == new_dimension
                               - get_distortion_dimension(polyline, distortion_vector)
             move_vec == VTimes(distortion_vector, difference)
         IN  [kind |-> "distorted",
              polyline |-> [i \in 1..Len(polyline) |->
                               IF (i - 1) \in top_vertices
                               THEN VAdd(polyline[i], move_vec)
                               ELSE polyline[i]]]

\* ------------------------------------------------------------ the cut line

To3D(p) == <<p[1], p[2], 0>>

\* Line2D.Reverse()
ReverseLine(l) == Line2D(l.EndPoint, l.StartPoint)

RECURSIVE GCD(_, _)
GCD(a, b) == IF b = 0 THEN a ELSE GCD(b, a % b)

\* Comparison.DeterminePosition(line, pnt) = eAbove: the point lies to the
\* left of the directed line, whose direction is taken in lowest terms.
IsAbove(l, pnt) ==
    LET along == <<l.EndPoint[1] - l.StartPoint[1], l.EndPoint[2] - l.StartPoint[2]>>
        g == GCD(Abs(along[1]), Abs(along[2]))
        d == IF g = 0 THEN along ELSE <<along[1] \div g, along[2] \div g>>
        v == <<pnt[1] - l.StartPoint[1], pnt[2] - l.StartPoint[2]>>
    IN  d[1] * v[2] - d[2] * v[1] > 0

\* The direction of the cut line l in the world, as _above computes it with
\* the uvs_to_world of the transformation that holds to_uvs.
cut_direction(l, to_uvs) ==
    VUnit(Rotate(uvs_to_world(to_uvs),
                 VSub(To3D(l.EndPoint), To3D(l.StartPoint))))

\* The test _above fails on: view and cut direction are perpendicular.
Degenerate_WhenParallel(vectors_similarity) == vectors_similarity # 0

Degenerate(vectors_similarity) == vectors_similarity = 0

\* _above never reversing the cut line
above_NoReverse(l, pnt, view_direction, to_uvs) ==
    IF Degenerate(VDot(view_direction, cut_direction(l, to_uvs)))
    THEN [kind |-> "ValueError", cut_line |-> l, above |-> FALSE]
    ELSE [kind |-> "answer", cut_line |-> l, above |-> IsAbove(l, pnt)]

\* PolygonalPlacementInRegions._above on the cut line object l: ValueError
\* when cut and view direction are perpendicular; else the line, reversed in
\* place when the two point in opposite directions, and the answer.
above(l, pnt, view_direction, to_uvs) ==
    LET vectors_similarity == VDot(view_direction, cut_direction(l, to_uvs))
        line == IF vectors_similarity < 0 THEN ReverseLine(l) ELSE l
    IN  IF Degenerate(vectors_similarity)
        THEN [kind |-> "ValueError", cut_line |-> l, above |-> FALSE]
        ELSE [kind |-> "answer", cut_line |-> line, above |-> IsAbove(line, pnt)]

\* The set comprehension of place_by_polygon over the first n points of the
\* shape polygon, in order, each _above call working on the cut line the
\* calls before it left.
RECURSIVE TopVertices(_, _, _, _)
TopVertices(l, n, view_direction, to_uvs) ==
    IF n = 0 THEN [kind |-> "answer", cut_line |-> l, top |-> {}]
    ELSE LET before == TopVertices(l, n - 1, view_direction, to_uvs)
             this == above(before.cut_line, ShapePolygon2D[n], view_direction,
                           to_uvs)
         IN  IF before.kind # "answer" THEN before
             ELSE IF this.kind # "answer"
             THEN [kind |-> this.kind, cut_line |-> this.cut_line, top |-> {}]
             ELSE [kind |-> "answer", cut_line |-> this.cut_line,
                   top |-> IF this.above THEN before.top \cup {n - 1} ELSE before.top]

\* ------------------------------------------------------------ the polygons

\* The height place_by_polygon takes off every cross-bar segment, in mm.
HardCodedHeightReduction == 60

\* An elementary polygon: bottom left, bottom right, top right, top left,
\* the left and the right edge vertical.
Quadrilateral(x0, x1, b0, b1, t0, t1) ==
    << <<x0 * Scale, b0 * Scale, 0>>, <<x1 * Scale, b1 * Scale, 0>>,
       <<x1 * Scale, t1 * Scale, 0>>, <<x0 * Scale, t0 * Scale, 0>> >>

\* PolygonalPlacementInteractorResult: the result of the polygon input.
PlacementData(polygons, m) == [elementary_polygons |-> polygons, world_to_local |-> m]

\* Two cells under a rising top edge.
TwoCells ==
    PlacementData(<< Quadrilateral(0, 400, 0, 0, 400, 600),
                     Quadrilateral(400, 800, 0, 0, 600, 600) >>, IdentityMatrix)

\* Three cells, the middle one too narrow for any bar.
NarrowMiddleCell ==
    PlacementData(<< Quadrilateral(0, 400, 0, 0, 400, 400),
                     Quadrilateral(400, 420, 0, 0, 400, 410),
                     Quadrilateral(420, 820, 0, 100, 410, 610) >>, IdentityMatrix)

\* One cell shorter than a cover.
ShortCell ==
    PlacementData(<< Quadrilateral(0, 20, 0, 0, 400, 400) >>, IdentityMatrix)

\* Two cells that meet where a division point falls.
CellsMeetingAtProbe ==
    PlacementData(<< Quadrilateral(0, 230, 0, 0, 400, 400),
                     Quadrilateral(230, 530, 0, 0, 400, 700) >>, IdentityMatrix)

\* The result no polygon input has written: no polygon, the identity.
DefaultPolygonalPlacementInteractorResult == PlacementData(<<>>, IdentityMatrix)

\* A view projected flat: the matrix of a degenerate reference frame.
FlatMatrix == Matrix(<< <<1, 0, 0>>, <<0, 1, 0>>, <<0, 0, 0>> >>, <<0, 0, 0>>)

\* A frame with two axes fallen together.
CollapsedMatrix ==
    Matrix(<< <<0, 0, 1>>, <<0, 1, 0>>, <<0, 0, 1>> >>, <<100 * Scale, 0, 0>>)

\* Two cells in a frame that has no inverse.
CellsInCollapsedFrame ==
    PlacementData(TwoCells.elementary_polygons, CollapsedMatrix)

PlacementDatas ==
    { TwoCells, NarrowMiddleCell, ShortCell, CellsMeetingAtProbe,
      DefaultPolygonalPlacementInteractorResult, CellsInCollapsedFrame }

Spacings == {100 * Scale, 200 * Scale}

\* The determinant of the rotation rows of a matrix.
Determinant(m) ==
    m.r[1][1] * (m.r[2][2] * m.r[3][3] - m.r[2][3] * m.r[3][2])
        - m.r[1][2] * (m.r[2][1] * m.r[3][3] - m.r[2][3] * m.r[3][1])
        + m.r[1][3] * (m.r[2][1] * m.r[3][2] - m.r[2][2] * m.r[3][1])

\* Matrix3D.Reverse() returns True: the matrix has an inverse.
ReverseSucceeds(m) == Determinant(m) # 0

ToWorldResult(kind, m) == [kind |-> kind, matrix |-> m]

\* PolygonalPlacementInteractorResult.local_to_world: the copy of
\* world_to_local reversed, or the ValueError raised when Reverse() returns
\* False.
local_to_world(placement_data) ==
    IF ReverseSucceeds(placement_data.world_to_local)
    THEN ToWorldResult("returned", Reverse(placement_data.world_to_local))
    ELSE ToWorldResult("ValueError", placement_data.world_to_local)

\* The view direction onto the placement polygon in place_by_polygon, of a
\* placement_data whose local_to_world is returned.
ViewDirection(placement_data) ==
    Rotate(local_to_world(placement_data).matrix, <<0, 0, 1>>)

\* PolygonalPlacementInteractorResult.total_length of a result with
\* polygons (elementary_polygons[-1] of an empty list raises IndexError)
total_length(placement_data) ==
    LET polygons == placement_data.elementary_polygons
        points == polygons[Len(polygons)]
        xs == {Transform(placement_data.world_to_local, points[i])[1] :
                   i \in 1..Len(points)}
    IN  CHOOSE m \in xs : \A x \in xs : x <= m

\* DivisionPoints(line, spacing).GetPoints() of the line on the local X axis
\* from from_x to to_x: a point every spacing from the start of the line.
DivisionPoints(from_x, to_x, spacing) ==
    IF to_x < from_x THEN <<>>
    ELSE [k \in 1..((to_x - from_x) \div spacing + 1) |-> from_x + (k - 1) * spacing]

\* The point of the edge from p to q above x.  The edges of the polygons
\* used here rise by whole units of 1/Scale between the division points.
PointOnEdge(p, q, x) ==
    <<x, p[2] + ((q[2] - p[2]) * (x - p[1])) \div (q[1] - p[1])>>

\* The edges of a polygon that are not vertical, each from its left to its
\* right end; the polygon is closed, whether its first point is repeated at
\* the end or not.
SlopingEdges(polygon) ==
    LET n == Len(polygon)
        next(i) == polygon[(i % n) + 1]
    IN  { IF polygon[i][1] < next(i)[1] THEN <<polygon[i], next(i)>>
          ELSE <<next(i), polygon[i]>> :
              i \in {j \in 1..n : polygon[j][1] # next(j)[1]} }

\* Where the vertical axis through x meets the edges of the polygon: the
\* lowest and the highest point.
AxisCut(x, polygon) ==
    LET ys == { PointOnEdge(e[1], e[2], x)[2] :
                    e \in {d \in SlopingEdges(polygon) :
                               d[1][1] <= x /\ x <= d[2][1]} }
    IN  << <<x, CHOOSE y \in ys : \A z \in ys : y <= z>>,
           <<x, CHOOSE y \in ys : \A z \in ys : z <= y>> >>

\* The span of the polygon along X
SpanX(polygon) ==
    LET xs == {polygon[i][1] : i \in 1..Len(polygon)}
    IN  [from |-> CHOOSE x \in xs : \A z \in xs : x <= z,
         to |-> CHOOSE x \in xs : \A z \in xs : z <= x]

\* What IntersectionCalculus may give for an axis that runs along a
\* vertical edge of the polygon: no points, or the two end points of the
\* edge.
AlongEdgeAnswers == {"no points", "end points"}

\* IntersectionCalculus(axis, polygon) of the vertical axis through x: the
\* points on the bottom and the top edge for an x strictly inside the span
\* of the quadrilateral, no points for an x outside of it, and along_edge
\* for an x on one of its two vertical edges.
IntersectionPoints(x, polygon, along_edge) ==
    IF SpanX(polygon).from < x /\ x < SpanX(polygon).to
    THEN AxisCut(x, polygon)
    ELSE IF x \in {SpanX(polygon).from, SpanX(polygon).to} /\ along_edge = "end points"
    THEN AxisCut(x, polygon)
    ELSE <<>>

\* The cross-bar segments of one polygon, one per division point that
\* meets it in two points.
RECURSIVE CrossBars(_, _, _, _)
CrossBars(division_points, n, polygon, along_edge) ==
    IF n = 0 THEN <<>>
    ELSE LET intersection_points ==
                 IntersectionPoints(division_points[n], polygon, along_edge)
             lines == CrossBars(division_points, n - 1, polygon, along_edge)
         IN  IF Len(intersection_points) = 2
             THEN Append(lines, Line2D(intersection_points[1], intersection_points[2]))
             ELSE lines

CalcLength(line) == VLength(VSub(To3D(line.EndPoint), To3D(line.StartPoint)))

\* PolygonalPlacementInRegions.Region of a polygon with cross-bar segments.
Region(lines) ==
    [bar_count |-> Len(lines),
     start_pnt |-> lines[1].StartPoint,
     height_at_start |-> CalcLength(lines[1]) - HardCodedHeightReduction * Scale,
     end_pnt |-> lines[Len(lines)].StartPoint,
     height_at_end |-> CalcLength(lines[Len(lines)]) - HardCodedHeightReduction * Scale]

\* PolygonalPlacementInRegions._populate_regions: the regions of the first n
\* polygons, a region for each polygon a division point meets.
RECURSIVE RegionsOf(_, _, _, _)
RegionsOf(placement_data, division_points, n, along_edge) ==
    IF n = 0 THEN <<>>
    ELSE LET polygon == TransformPolyline(placement_data.elementary_polygons[n],
                                          placement_data.world_to_local)
             lines == CrossBars(division_points, Len(division_points), polygon,
                                along_edge)
             regions == RegionsOf(placement_data, division_points, n - 1, along_edge)
         IN  IF Len(lines) # 0 THEN Append(regions, Region(lines)) ELSE regions

\* The regions, or the IndexError total_length raises on its first line
\* when the result holds no polygon; along_edge is what IntersectionCalculus
\* gives for an axis along a vertical edge.
RegionsResult(kind, regions) == [kind |-> kind, regions |-> regions]

populate_regions(placement_data, spacing, start_cover, end_cover, along_edge) ==
    IF Len(placement_data.elementary_polygons) = 0
    THEN RegionsResult("IndexError", <<>>)
    ELSE RegionsResult("regions",
             RegionsOf(placement_data,
                       DivisionPoints(start_cover,
                                      total_length(placement_data) - end_cover,
                                      spacing),
                       Len(placement_data.elementary_polygons), along_edge))

\* ------------------------------------------------------------ place_by_polygon

\* The direction the shapes are distorted in: the local Y axis.
DistortionVector == <<0, 1, 0>>

\* AllplanReinf.BendingShape(start_shape) in the loop of place_by_polygon:
\* the shape of a region is a copy of the start shape.  The pair <<heap, id>>.
RegionShape(h, start_shape) == CopyShape(h, h[start_shape])

\* place_by_polygon up to the loop, on the cut line l of the placement
\* object and the heap h: the view direction taken from local_to_world, the
\* vertices above the cut line found, the shape copied, brought into the
\* local frame and projected on its origin, the regions computed.  status
\* tells how this ends: the ValueError of local_to_world leaves the method
\* before anything is done, the ValueError of _above before the list is
\* cleared, the IndexError of total_length after it (cleared tells which);
\* or in the loop.
\* from the copy c of the shape on: the shape brought into the local frame
\* and projected on its origin, the regions computed
place_by_polygon_populated(c, top, regions, placement_data) ==
    IF regions.kind # "regions"
    THEN [status |-> regions.kind, cleared |-> TRUE, cut_line |-> top.cut_line]
    ELSE [status |-> "loop", cleared |-> TRUE, cut_line |-> top.cut_line,
          heap |-> [c[1] EXCEPT ![c[2]] =
                       project_shape_on_point(
                           TransformPolyline(c[1][c[2]],
                                             placement_data.world_to_local),
                           <<0, 0, 0>>)],
          top_vertices |-> top.top,
          start_shape |-> c[2],
          placement_regions |-> regions.regions]

\* from the answers top of _above on
place_by_polygon_above(h, to_uvs, top, start_cover, end_cover, placement_data, spacing, along_edge) ==
    IF top.kind # "answer"
    THEN [status |-> top.kind, cleared |-> FALSE, cut_line |-> top.cut_line]
    ELSE place_by_polygon_populated(
             CopyShape(h, bending_shape(to_uvs)), top,
             populate_regions(placement_data, spacing, start_cover, end_cover,
                              along_edge),
             placement_data)

\* place_by_polygon up to the loop on the heap h, l being the cut line of
\* the object and along_edge what IntersectionCalculus gives for an axis
\* along a vertical edge of a polygon
place_by_polygon_begin(h, to_uvs, l, start_cover, end_cover, placement_data, spacing, along_edge) ==
    IF local_to_world(placement_data).kind # "returned"
    THEN [status |-> local_to_world(placement_data).kind, cleared |-> FALSE,
          cut_line |-> l]
    ELSE place_by_polygon_above(
             h, to_uvs,
             TopVertices(l, Len(ShapePolygon2D), ViewDirection(placement_data), to_uvs),
             start_cover, end_cover, placement_data, spacing, along_edge)

\* A ValueError of distort_shape leaves the method.
DistortionFailed(h, list, f) ==
    [status |-> "ValueError", heap |-> Release(h, {f.start_shape}),
     placements |-> list, idx |-> f.idx]

\* the placement bp built of the two shapes, transformed and appended
place_by_polygon_appended(bp, list, placement_data, f) ==
    [status |-> "appended",
     heap |-> TransformPlacement(bp[1], bp[2], local_to_world(placement_data).matrix),
     placements |-> Append(list, bp[2]), idx |-> f.idx + 1]

\* the copy e of the start shape moved to the last cross-bar and distorted
place_by_polygon_end_shape(h, e, distorted_e, s, list, position, placement_data, f) ==
    IF distorted_e.kind = "ValueError" THEN DistortionFailed(h, list, f)
    ELSE place_by_polygon_appended(
             PolygonalBarPlacement([e[1] EXCEPT ![e[2]] = distorted_e.polyline],
                                   PositionNumber(position, f.idx),
                                   f.placement_regions[f.idx + 1].bar_count,
                                   s, e[2]),
             list, placement_data, f)

\* the second copy e of the start shape, s being the first
place_by_polygon_second_copy(h, e, s, list, position, placement_data, f) ==
    place_by_polygon_end_shape(
        h, e,
        distort_shape(f.top_vertices, DistortionVector,
                      Move(e[1][e[2]], To3D(f.placement_regions[f.idx + 1].end_pnt)),
                      f.placement_regions[f.idx + 1].height_at_end),
        s, list, position, placement_data, f)

\* the copy s of the start shape moved to the first cross-bar and distorted
place_by_polygon_start_shape(h, s, distorted_s, list, position, placement_data, f) ==
    IF distorted_s.kind = "ValueError" THEN DistortionFailed(h, list, f)
    ELSE place_by_polygon_second_copy(
             h,
             RegionShape([s[1] EXCEPT ![s[2]] = distorted_s.polyline], f.start_shape),
             s[2], list, position, placement_data, f)

\* the first copy s of the start shape
place_by_polygon_first_copy(h, s, list, position, placement_data, f) ==
    place_by_polygon_start_shape(
        h, s,
        distort_shape(f.top_vertices, DistortionVector,
                      Move(s[1][s[2]], To3D(f.placement_regions[f.idx + 1].start_pnt)),
                      f.placement_regions[f.idx + 1].height_at_start),
        list, position, placement_data, f)

\* One turn of the loop of place_by_polygon, f holding the local variables
\* of the call: two copies of the start shape moved to the first and the
\* last cross-bar of the region and distorted, the placement built of them,
\* transformed to the world and appended.
place_by_polygon_turn(h, list, position, placement_data, f) ==
    place_by_polygon_first_copy(h, RegionShape(h, f.start_shape), list, position,
                                placement_data, f)

\* The loop of place_by_polygon from the turn at.idx on, at holding what
\* the turn before left: status, heap, list and idx; and the return.
RECURSIVE place_by_polygon_loop(_, _, _, _)
place_by_polygon_loop(at, position, placement_data, f) ==
    IF at.status = "ValueError"
    THEN [status |-> "ValueError", heap |-> at.heap, placements |-> at.placements]
    ELSE IF at.idx = Len(f.placement_regions)
    THEN [status |-> "returned", heap |-> Release(at.heap, {f.start_shape}),
          placements |-> at.placements]
    ELSE place_by_polygon_loop(
             place_by_polygon_turn(at.heap, at.placements, position, placement_data,
                                   [f EXCEPT !.idx = at.idx]),
             position, placement_data, f)

\* How the loop of place_by_polygon ended, and the object with its list
place_by_polygon_done(self, done) ==
    [status |-> done.status, self |-> WithPlacements(self, done)]

\* place_by_polygon from the loop on, begun being what the lines before it
\* did: the cut line is as _above left it, the list cleared if the method
\* came that far.
place_by_polygon_end(self, begun, placement_data) ==
    IF begun.status # "loop"
    THEN [status |-> begun.status,
          self |-> [self EXCEPT !.cut_line = begun.cut_line,
                                !.placements = IF begun.cleared THEN <<>> ELSE @]]
    ELSE place_by_polygon_done(
             [self EXCEPT !.cut_line = begun.cut_line],
             place_by_polygon_loop(
                 [status |-> "appended", heap |-> begun.heap, placements |-> <<>>,
                  idx |-> 0],
                 self.bar_data.Position, placement_data,
                 [idx |-> 0, top_vertices |-> begun.top_vertices,
                  start_shape |-> begun.start_shape,
                  placement_regions |-> begun.placement_regions]))

\* PolygonalPlacementInRegions.place_by_polygon(placement_data, spacing) as
\* one step, on a placement object self that holds its placements with
\* their shapes: how the call ends, and the object after it.
place_by_polygon(self, placement_data, spacing, along_edge) ==
    place_by_polygon_end(
        self,
        place_by_polygon_begin(EmptyHeap, self.uvs_trans, self.cut_line,
                               self.start_cover, self.end_cover, placement_data,
                               spacing, along_edge),
        placement_data)

\* place_by_polygon up to the loop.
PlaceByPolygonBegin(placement_data, spacing, along_edge) ==
    /\ pc = "idle"
    /\ \E begun \in {place_by_polygon_begin(heap, world_to_uvs, cut_line,
                        covers.start, covers.end, placement_data, spacing,
                        along_edge)} :
       LET called == [op |-> "place_by_polygon", caller |-> "execute",
                      args |-> <<placement_data, spacing>>,
                      repeat |-> IsRepeat("place_by_polygon",
                                          <<placement_data, spacing>>)]
       IN  /\ cut_line' = begun.cut_line
           /\ IF ~begun.cleared
              THEN /\ last' = Ended(called, begun.status, placements, heap)
                   /\ UNCHANGED <<placements, heap, pc, frame>>
              ELSE IF begun.status # "loop"
              THEN /\ placements' = clear(heap, placements)[2]
                   /\ heap' = clear(heap, placements)[1]
                   /\ last' = Ended(called, begun.status, <<>>, heap)
                   /\ UNCHANGED <<pc, frame>>
              ELSE /\ placements' = clear(begun.heap, placements)[2]
                   /\ heap' = clear(begun.heap, placements)[1]
                   /\ pc' = "polygon_loop"
                   /\ frame' = [op |-> "place_by_polygon", caller |-> "execute",
                                args |-> <<placement_data, spacing>>,
                                repeat |-> IsRepeat("place_by_polygon",
                                                    <<placement_data, spacing>>),
                                top_vertices |-> begun.top_vertices,
                                start_shape |-> begun.start_shape,
                                placement_regions |-> begun.placement_regions,
                                idx |-> 0]
                   /\ UNCHANGED last
    /\ read' = "none"
    /\ UNCHANGED <<parse_vars, util_vars, config_vars>>

\* One turn of the loop of place_by_polygon.
PlaceByPolygonStep ==
    /\ pc = "polygon_loop"
    /\ frame.idx < Len(frame.placement_regions)
    /\ \E turn \in {place_by_polygon_turn(heap, placements, bar_data.Position,
                                         frame.args[1], frame)} :
           IF turn.status = "ValueError"
           THEN /\ pc' = "idle"
                /\ heap' = turn.heap
                /\ last' = Ended(frame, "ValueError", placements, heap)
                /\ frame' = NoFrame
                /\ UNCHANGED placements
           ELSE /\ placements' = turn.placements
                /\ heap' = turn.heap
                /\ frame' = [frame EXCEPT !.idx = turn.idx]
                /\ UNCHANGED <<pc, last>>
    /\ UNCHANGED <<parse_vars, util_vars, config_vars, cut_line, read>>

\* The loop is through: place_by_polygon returns.
PlaceByPolygonReturn ==
    /\ pc = "polygon_loop"
    /\ frame.idx = Len(frame.placement_regions)
    /\ pc' = "idle"
    /\ heap' = Release(heap, {frame.start_shape})
    /\ last' = Ended(frame, "returned", placements, heap)
    /\ frame' = NoFrame
    /\ UNCHANGED <<parse_vars, util_vars, config_vars, cut_line, placements, read>>

\* ------------------------------------------------------------ the run

\* The objects the runs start with: the bar data of the selected shape, the
\* covers, the view the shape was selected in and the cut line.
Configuration(position, bar_diameter, start_cover, end_cover, m, l) ==
    [bar_data |-> [Position |-> position, Diameter |-> bar_diameter * Scale],
     covers |-> [start |-> start_cover * Scale, end |-> end_cover * Scale],
     world_to_uvs |-> m, cut_line |-> l]

Configurations ==
    { Configuration(1, 10, 30, 30, IdentityMatrix, CutToRight),
      Configuration(1, 10, 30, 30, Reverse(SectionToWorld), CutToRight),
      Configuration(7, 12, 50, 40, Reverse(SectionToWorld), CutToLeft),
      Configuration(7, 12, 30, 30, Reverse(SectionToWorld), CutAbove) }

\* The state after PolygonalPlacementInRegions.__init__.
Init ==
    /\ string = <<>>
    /\ diameter = 0
    /\ parse_result = NotCalled
    /\ \E c \in Configurations :
          /\ bar_data = c.bar_data
          /\ covers = c.covers
          /\ world_to_uvs = c.world_to_uvs
          /\ cut_line = c.cut_line
    /\ placements = <<>>
    /\ heap = EmptyHeap
    /\ pc = "idle"
    /\ frame = NoFrame
    /\ last = NoCall
    /\ read = "none"
    /\ util_call = NoUtilCall
    /\ util_outcome = NotCalled
    /\ NoInput

Next ==
    \/ \E s \in PlaceStrings, l \in Lines, c \in Callers : PlaceInLineBegin(s, l, c)
    \/ PlaceInLineStep
    \/ PlaceInLineReturn
    \/ \E d \in PlacementDatas, spacing \in Spacings, along_edge \in AlongEdgeAnswers :
           PlaceByPolygonBegin(d, spacing, along_edge)
    \/ PlaceByPolygonStep
    \/ PlaceByPolygonReturn
    \/ ReadPlacements

Spec == Init /\ [][Next]_vars

\* ------------------------------------------------------------ the input polygon
\* A Polygon2D is the sequence of its points, the first repeated at the end.
\* Polygons of the polygon input are flat: points <<x, y>>.

ClosePolygon(vertices) == Append(vertices, vertices[1])

\* Polygon2D.Count()
CountOf(polygon) == Len(polygon)

\* Twice the area of the polygon, positive when it runs counterclockwise.
RECURSIVE ShoelaceSum(_, _)
ShoelaceSum(polygon, n) ==
    IF n = 0 THEN 0
    ELSE ShoelaceSum(polygon, n - 1)
             + polygon[n][1] * polygon[n + 1][2] - polygon[n + 1][1] * polygon[n][2]

SignedArea2(polygon) ==
    IF Len(polygon) < 2 THEN 0 ELSE ShoelaceSum(polygon, Len(polygon) - 1)

\* Polygon2D.IsValid(): three corners at least, and an area.
IsValidPolygon(polygon) == Len(polygon) >= 4 /\ SignedArea2(polygon) # 0

\* Polygon2D.NormalizeNoThrow() = eOK: the polygon runs counterclockwise.
NormalizeOk(polygon) == SignedArea2(polygon) > 0

\* Polygon2D.Reverse()
ReversePolygon(polygon) ==
    [i \in 1..Len(polygon) |-> polygon[Len(polygon) + 1 - i]]

\* Matrix3D.SetRotation(v, Vector3D(1,0,0)).ReduceZDimension() for a unit
\* vector v in the plane: the rotation that turns v into the X axis.
RotationOnto(v) ==
    Matrix(<< <<v[1], v[2], 0>>, <<-v[2], v[1], 0>>, <<0, 0, 1>> >>, <<0, 0, 0>>)

\* Matrix.Translate(vector)
Translated(m, vector) == Matrix(m.r, VAdd(m.t, vector))

\* a * b of two matrices: a applied first
Compose(a, b) ==
    Matrix([i \in 1..3 |-> [j \in 1..3 |->
               b.r[i][1] * a.r[1][j] + b.r[i][2] * a.r[2][j] + b.r[i][3] * a.r[3][j]]],
           VAdd(Rotate(b, a.t), b.t))

To2D(p) == <<p[1], p[2]>>

\* AllplanGeo.Transform(polygon, matrix) and AllplanGeo.Move(polygon, vector)
TransformPolygon(polygon, m) ==
    [i \in 1..Len(polygon) |-> To2D(Transform(m, To3D(polygon[i])))]

\* min(local_polygon.Points, key=lambda pnt: (pnt.X, pnt.Y))
LowerLeft(polygon) ==
    CHOOSE p \in {polygon[i] : i \in 1..Len(polygon)} :
        \A i \in 1..Len(polygon) :
            p[1] < polygon[i][1] \/ (p[1] = polygon[i][1] /\ p[2] <= polygon[i][2])

\* The start points of the edges parallel to the Y axis, in the order of
\* the edges: the edges whose vector has no X.
RECURSIVE VerticalStarts(_, _)
VerticalStarts(polygon, n) ==
    IF n = 0 THEN <<>>
    ELSE LET before == VerticalStarts(polygon, n - 1)
         IN  IF polygon[n + 1][1] - polygon[n][1] = 0
             THEN Append(before, polygon[n])
             ELSE before

\* list.sort(key=lambda pnt: pnt.X) of the first n points: ascending in X,
\* points of one X in the order they had.
RECURSIVE SortedByX(_, _)
SortedByX(points, n) ==
    IF n = 0 THEN <<>>
    ELSE LET before == SortedByX(points, n - 1)
             k == Cardinality({i \in 1..Len(before) : before[i][1] <= points[n][1]})
         IN  SubSeq(before, 1, k) \o <<points[n]>> \o SubSeq(before, k + 1, Len(before))

\* start_end of analyse_input_polygon: the start points of the vertical
\* edges of the local polygon, sorted by X.
start_end(polygon) ==
    SortedByX(VerticalStarts(polygon, Len(polygon) - 1),
              Len(VerticalStarts(polygon, Len(polygon) - 1)))

MinOf(xs) == CHOOSE m \in xs : \A x \in xs : m <= x
MaxOf(xs) == CHOOSE m \in xs : \A x \in xs : x <= m

\* The split coordinates with those of the two vertical edges among them
SplitSet_WithCaps(polygon, lo, hi) ==
    {polygon[i][1] : i \in {j \in 1..Len(polygon) :
                                lo <= polygon[j][1] /\ polygon[j][1] <= hi}}

\* set(...) of the X of the points with lo < pnt.X < hi, lo and hi the X of
\* the two entries of start_end
SplitSet(polygon, lo, hi) ==
    {polygon[i][1] : i \in {j \in 1..Len(polygon) :
                                lo < polygon[j][1] /\ polygon[j][1] < hi}}

RECURSIVE Sorted(_)
Sorted(xs) ==
    IF xs = {} THEN <<>> ELSE <<MinOf(xs)>> \o Sorted(xs \ {MinOf(xs)})

\* AllplanGeo.Split(polygon, vertical line through x): the part of the
\* polygon on either side of the line, cut edge by edge.
OnSide(p, x, side) == IF side = "left" THEN p[1] <= x ELSE p[1] >= x

CutPoint(p, q, x) ==
    <<x, p[2] + ((q[2] - p[2]) * (x - p[1])) \div (q[1] - p[1])>>

RECURSIVE ClipEdges(_, _, _, _)
ClipEdges(polygon, n, x, side) ==
    IF n = 0 THEN <<>>
    ELSE LET p == polygon[n]
             q == polygon[n + 1]
         IN  ClipEdges(polygon, n - 1, x, side) \o
                 (IF OnSide(p, x, side) /\ OnSide(q, x, side) THEN <<q>>
                  ELSE IF OnSide(p, x, side) THEN <<CutPoint(p, q, x)>>
                  ELSE IF OnSide(q, x, side) THEN <<CutPoint(p, q, x), q>>
                  ELSE <<>>)

\* a point list without the points that repeat their predecessor
RECURSIVE WithoutRepeats(_, _)
WithoutRepeats(points, n) ==
    IF n = 0 THEN <<>>
    ELSE LET before == WithoutRepeats(points, n - 1)
             prev == IF n = 1 THEN points[Len(points)] ELSE points[n - 1]
         IN  IF points[n] = prev /\ Len(points) > 1 THEN before
             ELSE Append(before, points[n])

SplitSide(polygon, x, side) ==
    LET corners == ClipEdges(polygon, Len(polygon) - 1, x, side)
        kept == WithoutRepeats(corners, Len(corners))
    IN  IF kept = <<>> THEN <<>> ELSE ClosePolygon(kept)

\* The loop of analyse_input_polygon over the split coordinates from the
\* k-th on: the left part of every split is a sub polygon and has to have 5
\* points, the right part is split on.
RECURSIVE SplitLoop(_, _, _, _)
SplitLoop(local_polygon, split_coords, k, sub_polygons) ==
    IF k > Len(split_coords)
    THEN IF CountOf(local_polygon) # 5
         THEN [valid |-> FALSE, sub_polygons |-> <<>>]
         ELSE [valid |-> TRUE, sub_polygons |-> Append(sub_polygons, local_polygon)]
    ELSE LET local_left_polygon == SplitSide(local_polygon, split_coords[k], "left")
             local_right_polygon == SplitSide(local_polygon, split_coords[k], "right")
         IN  IF CountOf(local_left_polygon) # 5
             THEN [valid |-> FALSE, sub_polygons |-> <<>>]
             ELSE SplitLoop(local_right_polygon, split_coords, k + 1,
                            Append(sub_polygons, local_left_polygon))

\* The check of the vertical edges passing with one edge as well
TwoVerticalEdges_OrOne(verticals) == Len(verticals) \in {1, 2}

\* The placement polygon has exactly two vertical edges.
TwoVerticalEdges(verticals) == Len(verticals) = 2

\* PolygonalPlacementInteractor.analyse_input_polygon: the polygon of the
\* polygon input, flat in the coordinates of the view, the normal vector of
\* the shape and the view of the interactor.
\* The split coordinates are read off start_end[0] and start_end[1], which
\* raises IndexError on a list shorter than two.
AnalysisResult(result, polygons, matrix) ==
    [kind |-> result, polygons |-> polygons, world_to_local |-> matrix]

analyse_input_polygon(input_polygon, for_preview, shape_nv, to_uvs) ==
    LET polygon == IF NormalizeOk(input_polygon) THEN input_polygon
                   ELSE ReversePolygon(input_polygon)
        projected == Rotate(to_uvs, shape_nv)
        local_placement_vec == <<projected[1], projected[2], 0>>
        rotation == RotationOnto(VUnit(local_placement_vec))
        rotated == TransformPolygon(polygon, rotation)
        ref_point == LowerLeft(rotated)
        translation_vector == <<-ref_point[1], -ref_point[2], 0>>
        local_polygon == TransformPolygon(rotated, Matrix(IdentityMatrix.r, translation_vector))
        global_to_local == Translated(rotation, translation_vector)
        local_to_global == Reverse(global_to_local)
        verticals == start_end(local_polygon)
        split_coords == Sorted(SplitSet(local_polygon, verticals[1][1], verticals[2][1]))
        split == SplitLoop(local_polygon, split_coords, 1, <<>>)
        sub_polygons == [i \in 1..Len(split.sub_polygons) |->
                            TransformPolygon(split.sub_polygons[i], local_to_global)]
        invalid == AnalysisResult("INVALID_FOR_POLYGONAL_PLACEMENT", <<polygon>>,
                                  IdentityMatrix)
    IN  IF ~IsValidPolygon(input_polygon)
        THEN AnalysisResult("INVALID_FOR_PREVIEW", << <<>> >>, IdentityMatrix)
        ELSE IF ~NormalizeOk(polygon) THEN invalid
        ELSE IF local_placement_vec = <<0, 0, 0>> THEN invalid
        ELSE IF ~TwoVerticalEdges(verticals) THEN invalid
        ELSE IF Len(verticals) < 2
        THEN AnalysisResult("IndexError", <<>>, IdentityMatrix)
        ELSE IF ~split.valid THEN invalid
        ELSE IF for_preview THEN AnalysisResult("VALID", sub_polygons, IdentityMatrix)
        ELSE AnalysisResult("VALID",
                 [i \in 1..Len(sub_polygons) |->
                     TransformPolyline([j \in 1..Len(sub_polygons[i]) |->
                                            To3D(sub_polygons[i][j])],
                                       Reverse(to_uvs))],
                 Compose(to_uvs, global_to_local))

\* ------------------------------------------------------------ the utilities

\* Largest vertex index a distortion utility is built with.
MaxIndex == 5

\* Shape polylines a utility is used on: the stirrup in the local frame of a
\* placement, an open U and a straight bar with a hook.
UtilShapes ==
    { << <<0, 0, 0>>, <<0, 0, 200 * Scale>>, <<0, 400 * Scale, 200 * Scale>>,
         <<0, 400 * Scale, 0>>, <<0, 0, 0>> >>,
      << <<0, 300 * Scale, 0>>, <<0, 0, 0>>, <<0, 0, 200 * Scale>>,
         <<0, 300 * Scale, 200 * Scale>> >>,
      << <<0, 100 * Scale, 50 * Scale>>, <<0, 100 * Scale, 0>>, <<0, 500 * Scale, 0>> >> }

DistortionVectors == { <<0, 1, 0>>, <<0, 0, 1>> }

NewDimensions == { 340 * Scale, 400 * Scale, 540 * Scale }

DistortCalls ==
    [op : {"distort_shape"}, shape : UtilShapes, top_vertices : SUBSET (0..MaxIndex),
     distortion_vector : DistortionVectors, new_dimension : NewDimensions]

\* BendingShapeDistortionUtil(top_vertices, distortion_vector).distort_shape(
\* shape, new_dimension)
DistortShapeCall ==
    /\ util_call.op = "distort_shape"
    /\ util_outcome = NotCalled
    /\ util_outcome' = distort_shape(util_call.top_vertices, util_call.distortion_vector,
                                     util_call.shape, util_call.new_dimension)
    /\ UNCHANGED <<parse_vars, place_vars, util_call, input_vars>>

\* Polygons of the polygon input, in the coordinates of the view: a
\* rectangle, a convex quadrilateral with two vertical caps, outlines with
\* one and two corners between the caps, the second of them drawn clockwise
\* as well, a triangle and a quadrilateral with one vertical edge, a stepped
\* outline with three, a diamond with none, an outline pointed to the left
\* of a vertical step, one pointed to the right of it, and a polygon of no
\* area.
Rectangle == ClosePolygon(<< <<0, 0>>, <<8, 0>>, <<8, 4>>, <<0, 4>> >>)
ConvexQuadrilateral == ClosePolygon(<< <<0, 0>>, <<8, 0>>, <<8, 6>>, <<0, 4>> >>)
OneCorner == ClosePolygon(<< <<0, 0>>, <<8, 0>>, <<8, 6>>, <<4, 6>>, <<0, 4>> >>)
TwoCorners ==
    ClosePolygon(<< <<0, 0>>, <<4, 0>>, <<8, 2>>, <<8, 7>>, <<6, 7>>, <<0, 4>> >>)
Triangle == ClosePolygon(<< <<0, 0>>, <<8, 2>>, <<0, 4>> >>)
OneVerticalEdge == ClosePolygon(<< <<0, 0>>, <<8, 2>>, <<6, 6>>, <<0, 4>> >>)
ThreeVerticalEdges ==
    ClosePolygon(<< <<0, 0>>, <<4, 0>>, <<4, 2>>, <<8, 2>>, <<8, 6>>, <<0, 6>> >>)
Diamond == ClosePolygon(<< <<4, 0>>, <<8, 4>>, <<4, 8>>, <<0, 4>> >>)
PointedLeft ==
    ClosePolygon(<< <<0, 2>>, <<2, 2>>, <<2, 0>>, <<8, 0>>, <<8, 6>>, <<4, 6>> >>)
PointedRight ==
    ClosePolygon(<< <<0, 0>>, <<4, 0>>, <<4, 2>>, <<8, 3>>, <<0, 4>> >>)
NoArea == ClosePolygon(<< <<0, 0>>, <<8, 0>>, <<4, 0>> >>)

\* A rectangle of 300 mm by 300 mm: long enough for two bars at the spacing
\* of execute between the covers, and higher than the height reduction.
Panel ==
    ClosePolygon(<< <<0, 0>>, <<300 * Scale, 0>>, <<300 * Scale, 300 * Scale>>,
                    <<0, 300 * Scale>> >>)

InputPolygons ==
    { Rectangle, ConvexQuadrilateral, OneCorner, TwoCorners, ReversePolygon(TwoCorners),
      Triangle, OneVerticalEdge, ThreeVerticalEdges, Diamond, PointedLeft,
      PointedRight, NoArea }

\* Normal vectors of the plane of a shape, in the world.
ShapeNormals == { <<1, 0, 0>>, <<-1, 0, 0>>, <<0, 1, 0>>, <<0, 0, 1>> }

Views == { IdentityMatrix, Reverse(SectionToWorld) }

AnalyseCalls ==
    [op : {"analyse_input_polygon"}, polygon : InputPolygons, for_preview : BOOLEAN,
     shape_nv : ShapeNormals, world_to_uvs : Views]

\* PolygonalPlacementInteractor.analyse_input_polygon(for_preview) on the
\* polygon of the polygon input
AnalysePolygonCall ==
    /\ util_call.op = "analyse_input_polygon"
    /\ util_outcome = NotCalled
    /\ util_outcome' = analyse_input_polygon(util_call.polygon, util_call.for_preview,
                                             util_call.shape_nv, util_call.world_to_uvs)
    /\ UNCHANGED <<parse_vars, place_vars, util_call, input_vars>>

\* What a Matrix3D may hold after a Reverse() that failed: what it held
\* before, or the identity.
AfterFailedReverse(m) == {m, IdentityMatrix}

ReferenceMatrices ==
    { IdentityMatrix, SectionToWorld, Reverse(SectionToWorld),
      Translated(SectionToWorld, <<500 * Scale, 0, 100 * Scale>>),
      FlatMatrix, CollapsedMatrix }

ToWorldCalls == [op : {"uvs_to_world", "local_to_world"}, matrix : ReferenceMatrices]

\* UvsTransformation.uvs_to_world of a view with the matrix of the call as
\* world_to_uvs: the copy reversed is returned, whatever Reverse() says.
UvsToWorldCall ==
    /\ util_call.op = "uvs_to_world"
    /\ util_outcome = NotCalled
    /\ \E reversed \in (IF ReverseSucceeds(util_call.matrix)
                         THEN {Reverse(util_call.matrix)}
                         ELSE AfterFailedReverse(util_call.matrix)) :
           util_outcome' = ToWorldResult("returned", reversed)
    /\ UNCHANGED <<parse_vars, place_vars, util_call, input_vars>>

\* PolygonalPlacementInteractorResult.local_to_world of a result with the
\* matrix of the call as world_to_local: ValueError when Reverse() fails.
LocalToWorldCall ==
    /\ util_call.op = "local_to_world"
    /\ util_outcome = NotCalled
    /\ util_outcome' = local_to_world(PlacementData(<<>>, util_call.matrix))
    /\ UNCHANGED <<parse_vars, place_vars, util_call, input_vars>>

UtilCalls == DistortCalls \cup AnalyseCalls \cup ToWorldCalls

\* The state before a utility is called on its own.
InitUtil ==
    /\ string = <<>>
    /\ diameter = 0
    /\ parse_result = NotCalled
    /\ bar_data = [Position |-> 1, Diameter |-> 10 * Scale]
    /\ covers = [start |-> 30 * Scale, end |-> 30 * Scale]
    /\ world_to_uvs = IdentityMatrix
    /\ cut_line = NoLine
    /\ placements = <<>>
    /\ heap = EmptyHeap
    /\ pc = "idle"
    /\ frame = NoFrame
    /\ last = NoCall
    /\ read = "none"
    /\ util_call \in UtilCalls
    /\ util_outcome = NotCalled
    /\ NoInput

NextUtil ==
    \/ DistortShapeCall
    \/ AnalysePolygonCall
    \/ UvsToWorldCall
    \/ LocalToWorldCall

SpecUtil == InitUtil /\ [][NextUtil]_vars

\* ------------------------------------------------------------ the line input
\* LineInteractor: the input of a line by two clicks or by picking a line up.
\* Points are Point3D, lines Line3D; None is the empty tuple.

None == <<>>

\* Line3D(): the zero line
ZeroLine == Line(<<0, 0, 0>>, <<0, 0, 0>>)

\* AllplanGeo.Transform(line, matrix)
TransformLine(l, m) == Line(Transform(m, l.StartPoint), Transform(m, l.EndPoint))

\* AllplanGeo.Line3D(line_2d): the line in the plane z = 0
Line3DOf(line_2d) == Line(To3D(line_2d.StartPoint), To3D(line_2d.EndPoint))

\* LineInteractorResult: input_line and element (input_value stays 0.0, no
\* interactor of the scripts is given a default_input_value)
LineInteractorResult(input_line, element) ==
    [input_line |-> input_line, element |-> element]

DefaultLineInteractorResult == LineInteractorResult(ZeroLine, "null")

\* SingleElementSelectResult: the selected element, a bars representation
\* line with the bar data the reinforcement service reads from it
SingleElementSelectResult == [sel_element |-> "null"]

Bars ==
    { [sel_element |-> "bar",
       bar_data |-> [Position |-> 1, Diameter |-> SelectedBarDiameter]] }

\* self.placement_in_regions: None, a PlacementInRegions or a
\* PolygonalPlacementInRegions of the selected bar.  uvs_trans holds the
\* world_to_uvs matrix of its UvsTransformation, placements the list
\* _placements with the shapes of the placements.
NoPlacementInRegions == [class |-> "NoneType"]

\* PlacementInRegions.__init__
NewPlacementInRegions(bar_line, start_cover, end_cover, shape_uvs) ==
    [class |-> "PlacementInRegions",
     bar_data |-> bar_line.bar_data,
     start_cover |-> start_cover,
     end_cover |-> end_cover,
     uvs_trans |-> shape_uvs,
     cut_line |-> NoLine,
     placements |-> <<>>]

\* PolygonalPlacementInRegions.__init__
NewPolygonalPlacementInRegions(bar_line, line, start_cover, end_cover, shape_uvs) ==
    [NewPlacementInRegions(bar_line, start_cover, end_cover, shape_uvs) EXCEPT
         !.class = "PolygonalPlacementInRegions",
         !.cut_line = line]

\* isinstance(placement_in_regions, PlacementInRegions): the polygonal class
\* is a subclass.
IsPlacementInRegions(p) == p.class \in {"PlacementInRegions", "PolygonalPlacementInRegions"}
IsPolygonalPlacementInRegions(p) == p.class = "PolygonalPlacementInRegions"

\* preview_function of the constructor: None, or generate_preview_placements
\* bound to a script object, of which it reads the RegionsString of the
\* palette and the placement object.  The function holds the two; the model
\* keeps the placement object of the script object equal to it.
NoPreviewFunction == [function |-> "None"]

BoundPreviewFunction(regions_string, placement_in_regions) ==
    [function |-> "generate_preview_placements",
     RegionsString |-> regions_string,
     placement_in_regions |-> placement_in_regions]

\* LineInteractor.__init__: uvs_transform holds the world_to_uvs matrix of
\* UvsTransformation, coord_input tells whether start_input has handed one over.
LineInteractor(interactor_result, allow_pick_up, allow_input_in_uvs, preview_function) ==
    [kind |-> "LineInteractor",
     interactor_result |-> interactor_result,
     allow_pick_up |-> allow_pick_up,
     allow_uvs_input |-> allow_input_in_uvs,
     preview_function |-> preview_function,
     start_point |-> None,
     uvs_transform |-> IdentityMatrix,
     coord_input |-> FALSE]

\* LineInteractor.start_input(coord_input)
start_input_of_line(interactor) == [interactor EXCEPT !.coord_input = TRUE]

\* What the coordinate input gives for a mouse message or, asked for the
\* current point, between two of them: the identified point in the
\* coordinates of the view, the geometry and the element under the cursor,
\* and the view the cursor is in.
MouseMsgs == {"move", "click"}

InputPoints == { <<0, 0, 0>>, <<2000 * Scale, 0, 0>> }

NoGeometry == [class |-> "NoneType"]

Geometries ==
    { NoGeometry,
      [class |-> "Arc3D"],
      [class |-> "Line3D", line |-> Line(<<0, 0, 0>>, <<2000 * Scale, 0, 0>>)],
      [class |-> "Line2D", line |-> Line2D(<<0, 0>>, <<1000 * Scale, 0>>)] }

ElementOf(geometry) == IF geometry = NoGeometry THEN "null" ELSE "element"

MouseInput(point, geometry, view) ==
    [point |-> point, geometry |-> geometry, element |-> ElementOf(geometry),
     view |-> view]

MouseInputs ==
    { MouseInput(p, g, v) : p \in InputPoints, g \in Geometries, v \in Views }

\* LineInteractor.get_input_line(mouse_msg, pnt, msg_info): the line, and the
\* interactor with the start point the call may have stored. Called without
\* arguments the message is 512, a mouse move.
GotLine(line, interactor) == [line |-> line, interactor |-> interactor]

get_input_line(interactor, mouse_msg, input) ==
    LET to_world == Reverse(interactor.uvs_transform)
        input_point == Transform(to_world, input.point)
    IN  IF ~interactor.coord_input THEN GotLine(ZeroLine, interactor)
        ELSE IF /\ interactor.allow_pick_up
                /\ interactor.start_point = None
                /\ input.geometry.class = "Line3D"
        THEN GotLine(TransformLine(input.geometry.line, to_world), interactor)
        ELSE IF /\ interactor.allow_pick_up
                /\ interactor.start_point = None
                /\ input.geometry.class = "Line2D"
        THEN GotLine(TransformLine(Line3DOf(input.geometry.line), to_world), interactor)
        ELSE IF interactor.start_point # None
        THEN GotLine(Line(interactor.start_point, input_point), interactor)
        ELSE IF mouse_msg # "move"
        THEN GotLine(ZeroLine, [interactor EXCEPT !.start_point = input_point])
        ELSE GotLine(ZeroLine, interactor)

\* The lines a LineInteractor of the runs below hands to its preview
\* function and stores in its result: a line picked up, or the line from
\* the start point to the point under the cursor, brought from the view to
\* the world. The view is taken while the start point is asked for and
\* kept for the end point, so both points of a line are of one view.
PreviewLines ==
    { TransformLine(IF g.class = "Line2D" THEN Line3DOf(g.line) ELSE g.line,
                    Reverse(view)) :
          g \in {g \in Geometries : g.class \in {"Line3D", "Line2D"}}, view \in Views }
        \cup { Line(Transform(Reverse(view), a), Transform(Reverse(view), b)) :
                   view \in Views, a \in InputPoints, b \in InputPoints }

\* place_in_line on a new placement object, for the bars, views, strings
\* and lines of the runs below, computed once.
PlaceInLineTable ==
    [data \in {bar.bar_data : bar \in Bars}, view \in Views, s \in RegionsStrings,
     l \in PreviewLines |->
        place_in_line(NewPlacementInRegions([bar_data |-> data],
                                            HardCodedCover * Scale,
                                            HardCodedCover * Scale, view),
                      s, l)]

\* What a call of place_in_line makes of the object self, placed being what
\* it makes of a new object: the call reads the bar data and the view of
\* the object, and replaces its list unless it ends with an exception.
PlacedOn(self, placed) ==
    IF placed.status # "returned" THEN [status |-> placed.status, self |-> self]
    ELSE [status |-> "returned",
          self |-> [self EXCEPT !.placements = placed.self.placements]]

\* self.placement_in_regions.place_in_line(regions_string, line) in
\* generate_preview_placements and execute
place_in_line_looked_up(self, regions_string, placement_line) ==
    IF <<self.bar_data, self.uvs_trans, regions_string, placement_line>>
           \in DOMAIN PlaceInLineTable
    THEN PlacedOn(self, PlaceInLineTable[self.bar_data, self.uvs_trans,
                                         regions_string, placement_line])
    ELSE place_in_line(self, regions_string, placement_line)

\* The read of the placements property after place_in_line, placed being
\* what the call did: how this ends, and what self holds after it.
PlacementsRead(self, placed) ==
    [status |-> IF placed.status # "returned" THEN placed.status
                ELSE PlacementsProperty(placed.self.placements),
     self |-> [self EXCEPT !.placement_in_regions = placed.self]]

\* PlaceInRegions.generate_preview_placements(line): place_in_line on the
\* placement object and the read of its placements property; how the call
\* ends, and what self holds after it.
generate_preview_placements(self, line) ==
    IF IsPlacementInRegions(self.placement_in_regions)
    THEN PlacementsRead(self, place_in_line_looked_up(self.placement_in_regions,
                                                      self.RegionsString, line))
    ELSE [status |-> "returned", self |-> self]

\* The interactor after its preview function has run: the function is a
\* method of the script object, whose placement object it changes.
Previewed(interactor, previewed) ==
    [status |-> previewed.status,
     interactor |-> [interactor EXCEPT !.preview_function = previewed.self]]

\* LineInteractor.draw_preview(line): how the call ends, and the interactor
\* after it. Without a preview function the line itself is drawn.
draw_preview(interactor, line) ==
    IF interactor.preview_function = NoPreviewFunction
    THEN [status |-> "returned", interactor |-> interactor]
    ELSE Previewed(interactor,
                   generate_preview_placements(interactor.preview_function, line))

\* What a handler of the interactor did: its return value or the exception
\* that left it, the interactor after it, and the line handed to
\* draw_preview (the zero line: none).
Handled(returned, interactor, preview) ==
    [returned |-> returned, interactor |-> interactor, preview |-> preview]

\* The return value of a handler, or the exception that left it
ReturnedOrRaised(status, value) == IF status = "returned" THEN value ELSE status

\* A handler that ends with draw_preview(line): drawn is what the call did.
Drawn(drawn, value, line) ==
    Handled(ReturnedOrRaised(drawn.status, value), drawn.interactor, line)

\* LineInteractor.process_mouse_msg(mouse_msg, pnt, msg_info)
process_mouse_msg(interactor, mouse_msg, input) ==
    LET viewed == IF interactor.start_point = None /\ interactor.allow_uvs_input
                  THEN [interactor EXCEPT !.uvs_transform = input.view]
                  ELSE interactor
        got == get_input_line(viewed, mouse_msg, input)
    IN  IF ~interactor.coord_input THEN Handled("True", interactor, ZeroLine)
        ELSE IF got.line # ZeroLine
        THEN IF mouse_msg # "move"
             THEN Handled("False",
                          [got.interactor EXCEPT !.interactor_result =
                               LineInteractorResult(got.line, input.element)],
                          ZeroLine)
             ELSE Drawn(draw_preview(got.interactor, got.line), "True", got.line)
        ELSE Handled("True", got.interactor, ZeroLine)

\* LineInteractor.on_preview_draw()
on_preview_draw(interactor, input) ==
    LET got == get_input_line(interactor, "move", input)
    IN  IF ~interactor.coord_input THEN Handled("None", interactor, ZeroLine)
        ELSE IF got.line # ZeroLine
        THEN Drawn(draw_preview(got.interactor, got.line), "None", got.line)
        ELSE Handled("None", got.interactor, ZeroLine)

\* LineInteractor.on_mouse_leave()
on_mouse_leave(interactor, input) == on_preview_draw(interactor, input)

\* The handler of ESC keeping the view of the discarded start point
on_cancel_function_KeepsView(interactor) ==
    IF interactor.start_point = None
    THEN Handled("CANCEL_INPUT", interactor, ZeroLine)
    ELSE Handled("CONTINUE_INPUT", [interactor EXCEPT !.start_point = None], ZeroLine)

\* LineInteractor.on_cancel_function()
on_cancel_function(interactor) ==
    IF interactor.start_point = None
    THEN Handled("CANCEL_INPUT", interactor, ZeroLine)
    ELSE Handled("CONTINUE_INPUT",
                 [interactor EXCEPT !.start_point = None,
                                    !.uvs_transform = IdentityMatrix],
                 ZeroLine)

\* ------------------------------------------------------------ a line interactor run
\* A LineInteractor on its own: constructed with any of its options, started,
\* and fed with mouse messages, preview events and ESC until it terminates.

Event(event, mouse_msg, returned, preview) ==
    [event |-> event, mouse_msg |-> mouse_msg, returned |-> returned,
     preview |-> preview]

PreviewFunctions ==
    {NoPreviewFunction}
        \cup { BoundPreviewFunction(s, NewPlacementInRegions(bar, HardCodedCover * Scale,
                                                             HardCodedCover * Scale,
                                                             IdentityMatrix)) :
                   s \in RegionsStrings, bar \in Bars }

LineInteractors ==
    { LineInteractor(DefaultLineInteractorResult, pick, uvs, f) :
          pick \in BOOLEAN, uvs \in BOOLEAN, f \in PreviewFunctions }

\* The interactor ends with a False of process_mouse_msg and with a cancelled
\* input.
Terminated == handled.returned \in {"False", "CANCEL_INPUT"}

InitLine ==
    /\ string = <<>>
    /\ diameter = 0
    /\ parse_result = NotCalled
    /\ bar_data = [Position |-> 1, Diameter |-> SelectedBarDiameter]
    /\ covers = [start |-> 30 * Scale, end |-> 30 * Scale]
    /\ world_to_uvs = IdentityMatrix
    /\ cut_line = NoLine
    /\ placements = <<>>
    /\ heap = EmptyHeap
    /\ pc = "idle"
    /\ frame = NoFrame
    /\ last = NoCall
    /\ read = "none"
    /\ util_call = NoUtilCall
    /\ util_outcome = NotCalled
    /\ script_object = NoScriptObject
    /\ script_object_interactor \in LineInteractors
    /\ handled = NoEvent

LineStartInput ==
    /\ ~script_object_interactor.coord_input
    /\ ~Terminated
    /\ script_object_interactor' = start_input_of_line(script_object_interactor)
    /\ handled' = Event("start_input", "none", "None", ZeroLine)
    /\ UNCHANGED <<parse_vars, place_vars, util_call, util_outcome, script_object>>

LineMouseMsg(mouse_msg, input) ==
    /\ ~Terminated
    /\ \E done \in {process_mouse_msg(script_object_interactor, mouse_msg, input)} :
           /\ script_object_interactor' = done.interactor
           /\ handled' = Event("process_mouse_msg", mouse_msg, done.returned, done.preview)
    /\ UNCHANGED <<parse_vars, place_vars, util_call, util_outcome, script_object>>

LinePreviewDraw(input) ==
    /\ ~Terminated
    /\ \E done \in {on_preview_draw(script_object_interactor, input)} :
           /\ script_object_interactor' = done.interactor
           /\ handled' = Event("on_preview_draw", "none", done.returned, done.preview)
    /\ UNCHANGED <<parse_vars, place_vars, util_call, util_outcome, script_object>>

LineMouseLeave(input) ==
    /\ ~Terminated
    /\ \E done \in {on_mouse_leave(script_object_interactor, input)} :
           /\ script_object_interactor' = done.interactor
           /\ handled' = Event("on_mouse_leave", "none", done.returned, done.preview)
    /\ UNCHANGED <<parse_vars, place_vars, util_call, util_outcome, script_object>>

LineEsc ==
    LET done == on_cancel_function(script_object_interactor)
    IN  /\ ~Terminated
        /\ script_object_interactor' = done.interactor
        /\ handled' = Event("on_cancel_function", "none", done.returned, done.preview)
        /\ UNCHANGED <<parse_vars, place_vars, util_call, util_outcome, script_object>>

NextLine ==
    \/ LineStartInput
    \/ \E mouse_msg \in MouseMsgs, input \in MouseInputs : LineMouseMsg(mouse_msg, input)
    \/ \E input \in MouseInputs : LinePreviewDraw(input)
    \/ \E input \in MouseInputs : LineMouseLeave(input)
    \/ LineEsc

SpecLine == InitLine /\ [][NextLine]_vars

\* ------------------------------------------------------------ the script object
\* PlaceInRegions, the script object of the PythonPart: its input modes, the
\* results of its interactors, the placement object and the placement type
\* of the palette. An interactor holds the result object of the script
\* object it was constructed on, and its preview function the placement
\* object; the model keeps the two copies of each equal.

SingleElementSelectInteractor(interactor_result) ==
    [kind |-> "SingleElementSelectInteractor", interactor_result |-> interactor_result]

\* AllplanIFW.PolygonInput(coord_input, False, False): the polygon through
\* the points clicked, which GetPolygon() gives, and the polygon with the
\* point under the mouse, which GetPreviewPolygon() gives; both empty when
\* the input starts.
NoPolygonInput == [IsNone |-> TRUE]
PolygonInput == [IsNone |-> FALSE, polygon |-> <<>>, preview_polygon |-> <<>>]

\* polygon_input.ExecuteInput(mouse_msg, pnt, msg_info), drawn being the
\* polygon through the points clicked so far and the point of the message:
\* a move of the mouse shows it in the preview polygon, a click takes the
\* point into the polygon.
ExecuteInput(polygon_input, mouse_msg, drawn) ==
    IF mouse_msg = "move" THEN [polygon_input EXCEPT !.preview_polygon = drawn]
    ELSE [polygon_input EXCEPT !.polygon = drawn, !.preview_polygon = drawn]

\* PolygonalPlacementInteractor.__init__
PolygonalPlacementInteractor(interactor_result, norm_vector) ==
    [kind |-> "PolygonalPlacementInteractor",
     interactor_result |-> interactor_result,
     polygon_input |-> NoPolygonInput,
     uvs_trans |-> IdentityMatrix,
     shape_nv |-> norm_vector,
     input_result |-> "INVALID_FOR_PREVIEW",
     preview_polygons |-> <<>>]

\* PolygonalPlacementInteractor.start_input(coord_input)
start_input_of_polygon(interactor) == [interactor EXCEPT !.polygon_input = PolygonInput]

\* The polygons drawn with a mouse message
DrawnPolygons == { TwoCorners, Triangle, NoArea, Panel }

\* AssocViewElementAdapter: the null adapter, or the adapter of a view with
\* its transformation matrix
NullView == [IsNull |-> TRUE]
AssocView(matrix) == [IsNull |-> FALSE, matrix |-> matrix]
AssocViews == {NullView} \cup { AssocView(m) : m \in Views }

\* UvsTransformation(uvs_adapter).world_to_uvs
UvsTransformation(uvs_adapter) ==
    IF uvs_adapter.IsNull THEN IdentityMatrix ELSE uvs_adapter.matrix

\* What coord_input.SelectElement and GetSelectedElementAssocView give
Selection(found, view) == [found |-> found, view |-> view]
Selections ==
    {Selection(FALSE, NullView)} \cup { Selection(TRUE, view) : view \in AssocViews }

\* The interactor with the polygon input after the message and what the
\* analysis of its preview polygon gave
WithPreviewOf(interactor, polygon_input, analysed) ==
    [interactor EXCEPT !.polygon_input = polygon_input,
                       !.input_result = analysed.kind,
                       !.preview_polygons = analysed.polygons]

\* The end of process_mouse_msg: on a click the view of a selected
\* element, unless it is the null adapter, replaces the view of the
\* interactor. The handler returns True always.
PolygonHandled(previewed, mouse_msg, selection) ==
    IF mouse_msg = "move" THEN Handled("True", previewed, ZeroLine)
    ELSE IF selection.found /\ selection.view # NullView
    THEN Handled("True",
                 [previewed EXCEPT !.uvs_trans = UvsTransformation(selection.view)],
                 ZeroLine)
    ELSE Handled("True", previewed, ZeroLine)

\* The lines of process_mouse_msg from the analysis on, polygon_input being
\* the polygon input after ExecuteInput
PolygonPreviewed(interactor, polygon_input, mouse_msg, selection) ==
    PolygonHandled(
        WithPreviewOf(interactor, polygon_input,
                      analyse_input_polygon(polygon_input.preview_polygon, TRUE,
                                            interactor.shape_nv, interactor.uvs_trans)),
        mouse_msg, selection)

\* PolygonalPlacementInteractor.process_mouse_msg: the polygon input takes
\* the message and its preview polygon is analysed for the preview.
process_mouse_msg_of_polygon(interactor, mouse_msg, polygon, selection) ==
    PolygonPreviewed(interactor,
                     ExecuteInput(interactor.polygon_input, mouse_msg, polygon),
                     mouse_msg, selection)

\* The result written whatever the analysis returned
StoredAlways(interactor, analysed) ==
    Handled(IF analysed.kind = "VALID" THEN "CONTINUE_INPUT" ELSE "CANCEL_INPUT",
            [interactor EXCEPT !.interactor_result =
                 PlacementData(analysed.polygons, analysed.world_to_local)],
            ZeroLine)

\* The handler of ESC storing what the analysis returned whatever its result
on_cancel_function_of_polygon_StoresAlways(interactor) ==
    StoredAlways(interactor,
                 analyse_input_polygon(interactor.polygon_input.polygon, FALSE,
                                       interactor.shape_nv,
                                       interactor.uvs_trans))

\* The result written only when the analysis found the polygon valid
StoredIfValid(interactor, analysed) ==
    IF analysed.kind = "VALID"
    THEN Handled("CONTINUE_INPUT",
                 [interactor EXCEPT !.interactor_result =
                      PlacementData(analysed.polygons, analysed.world_to_local)],
                 ZeroLine)
    ELSE Handled("CANCEL_INPUT", interactor, ZeroLine)

\* PolygonalPlacementInteractor.on_cancel_function(): the analysis is of
\* the polygon GetPolygon() gives, not of the preview polygon.
on_cancel_function_of_polygon(interactor) ==
    StoredIfValid(interactor,
                  analyse_input_polygon(interactor.polygon_input.polygon, FALSE,
                                        interactor.shape_nv,
                                        interactor.uvs_trans))

\* PlaceInRegions.__init__ up to the first assignment of current_mode
ConstructedScriptObject(placement_type, regions_string) ==
    [current_mode |-> "none",
     PlacementType |-> placement_type,
     RegionsString |-> regions_string,
     shape_selection_result |-> SingleElementSelectResult,
     placement_line_input_result |-> DefaultLineInteractorResult,
     shape_cut_line_input_result |-> DefaultLineInteractorResult,
     placement_polygon_input_result |-> DefaultPolygonalPlacementInteractorResult,
     placement_in_regions |-> NoPlacementInRegions,
     assoc_view |-> IdentityMatrix]

\* A script object and its interactor, as a handler leaves them
Script(object, interactor) == [script_object |-> object, interactor |-> interactor]

\* The setter leaving the interactor of the mode before in place where the
\* new mode has none
set_current_mode_KeepsInteractor(object, interactor, new_mode) ==
    Script([object EXCEPT !.current_mode = new_mode], interactor)

\* The setter of PlaceInRegions.current_mode
set_current_mode(object, interactor, new_mode) ==
    IF new_mode = "SHAPE_SELECTION"
    THEN Script([object EXCEPT !.shape_selection_result = SingleElementSelectResult,
                               !.placement_in_regions = NoPlacementInRegions,
                               !.current_mode = new_mode],
                SingleElementSelectInteractor(SingleElementSelectResult))
    ELSE IF new_mode = "SHAPE_CUT"
    THEN Script([object EXCEPT !.current_mode = new_mode],
                LineInteractor(object.shape_cut_line_input_result, FALSE, FALSE,
                               NoPreviewFunction))
    ELSE IF new_mode = "PLACEMENT_INPUT"
    THEN Script([object EXCEPT
                     !.assoc_view = IdentityMatrix,
                     !.placement_line_input_result = DefaultLineInteractorResult,
                     !.placement_polygon_input_result =
                         DefaultPolygonalPlacementInteractorResult,
                     !.current_mode = new_mode],
                IF object.PlacementType = 1
                THEN LineInteractor(DefaultLineInteractorResult, TRUE, TRUE,
                         BoundPreviewFunction(object.RegionsString,
                                              object.placement_in_regions))
                ELSE PolygonalPlacementInteractor(
                         DefaultPolygonalPlacementInteractorResult,
                         IsPlanar(bending_shape(object.placement_in_regions.uvs_trans))
                             .Vector))
    ELSE Script([object EXCEPT !.current_mode = new_mode], NoInteractor)

\* PlaceInRegions.start_input()
start_input(object, interactor) == set_current_mode(object, interactor, "SHAPE_SELECTION")

\* AllplanGeo.ConvertTo2D(line)
ConvertTo2D(line) == Line2D(To2D(line.StartPoint), To2D(line.EndPoint))

\* PlaceInRegions.start_next_input(); input_view is what
\* coord_input.GetInputAssocView() gives.
start_next_input(object, interactor, input_view) ==
    IF /\ object.current_mode = "PLACEMENT_INPUT"
       /\ object.placement_line_input_result # DefaultLineInteractorResult
    THEN set_current_mode(object, interactor, "CREATION")
    ELSE IF /\ object.current_mode = "SHAPE_SELECTION"
            /\ object.shape_selection_result # SingleElementSelectResult
    THEN IF object.PlacementType = 1
         THEN set_current_mode(
                  [object EXCEPT !.assoc_view = input_view,
                                 !.placement_in_regions =
                                     NewPlacementInRegions(object.shape_selection_result,
                                                           HardCodedCover * Scale,
                                                           HardCodedCover * Scale,
                                                           input_view)],
                  interactor, "PLACEMENT_INPUT")
         ELSE set_current_mode([object EXCEPT !.assoc_view = input_view],
                               interactor, "SHAPE_CUT")
    ELSE IF /\ object.current_mode = "SHAPE_CUT"
            /\ object.shape_cut_line_input_result # DefaultLineInteractorResult
    THEN set_current_mode(
             [object EXCEPT !.placement_in_regions =
                  NewPolygonalPlacementInRegions(object.shape_selection_result,
                      ConvertTo2D(object.shape_cut_line_input_result.input_line),
                      HardCodedCover * Scale, HardCodedCover * Scale,
                      object.assoc_view)],
             interactor, "PLACEMENT_INPUT")
    ELSE Script(object, interactor)

\* The script object with what its interactor has written: the result
\* object of the interactor is the one of the script object's mode, and
\* the placement object of its preview function the one of the script
\* object.
WithResultOf(object, interactor) ==
    IF interactor.kind = "SingleElementSelectInteractor"
    THEN [object EXCEPT !.shape_selection_result = interactor.interactor_result]
    ELSE IF interactor.kind = "PolygonalPlacementInteractor"
    THEN [object EXCEPT !.placement_polygon_input_result = interactor.interactor_result]
    ELSE IF interactor.kind = "LineInteractor" /\ object.current_mode = "SHAPE_CUT"
    THEN [object EXCEPT !.shape_cut_line_input_result = interactor.interactor_result]
    ELSE IF interactor.kind = "LineInteractor"
    THEN [object EXCEPT
              !.placement_line_input_result = interactor.interactor_result,
              !.placement_in_regions =
                  IF interactor.preview_function = NoPreviewFunction THEN @
                  ELSE interactor.preview_function.placement_in_regions]
    ELSE object

\* cancel_result = self.script_object_interactor.on_cancel_function(): the
\* script object asks its interactor in PLACEMENT_INPUT only.
on_cancel_function_of_interactor(object, interactor) ==
    IF object.current_mode # "PLACEMENT_INPUT"
    THEN Handled("None", interactor, ZeroLine)
    ELSE IF interactor.kind = "PolygonalPlacementInteractor"
    THEN on_cancel_function_of_polygon(interactor)
    ELSE on_cancel_function(interactor)

\* What a handler of the script object did: its return value and the script
\* object and interactor after it.
ScriptHandled(returned, script) ==
    [returned |-> returned, script_object |-> script.script_object,
     interactor |-> script.interactor]

\* PlaceInRegions.on_cancel_function(); cancelled is what the call of the
\* interactor's on_cancel_function did.
on_cancel_function_of_script(object, interactor, cancelled) ==
    IF object.current_mode = "SHAPE_SELECTION"
    THEN ScriptHandled("CANCEL_INPUT", Script(object, NoInteractor))
    ELSE IF object.current_mode = "SHAPE_CUT"
    THEN ScriptHandled("CONTINUE_INPUT",
                       set_current_mode(object, interactor, "SHAPE_SELECTION"))
    ELSE IF object.current_mode = "PLACEMENT_INPUT"
    THEN IF object.PlacementType = 2
         THEN IF \/ cancelled.returned = "CANCEL_INPUT"
                 \/ WithResultOf(object, cancelled.interactor)
                        .placement_polygon_input_result
                        = DefaultPolygonalPlacementInteractorResult
              THEN ScriptHandled("CONTINUE_INPUT",
                       set_current_mode(WithResultOf(object, cancelled.interactor),
                                        cancelled.interactor, "SHAPE_SELECTION"))
              ELSE ScriptHandled("CONTINUE_INPUT",
                       set_current_mode(WithResultOf(object, cancelled.interactor),
                                        cancelled.interactor, "CREATION"))
         ELSE IF cancelled.returned = "CANCEL_INPUT"
         THEN ScriptHandled("CONTINUE_INPUT",
                  set_current_mode(WithResultOf(object, cancelled.interactor),
                                   cancelled.interactor, "SHAPE_SELECTION"))
         ELSE ScriptHandled("CONTINUE_INPUT",
                  Script(WithResultOf(object, cancelled.interactor),
                         cancelled.interactor))
    ELSE ScriptHandled("CREATE_ELEMENTS", Script(object, interactor))

\* placement_polygon_input_result != PolygonalPlacementInteractorResult: the
\* result object is compared with the class, which no object of it equals.
DiffersFromResultClass(result) == TRUE

\* The spacing execute hands to place_by_polygon, in mm
HardCodedSpacing == 200

\* What execute makes of a call of place_in_line or place_by_polygon and
\* the read of the placements property after it: the exception that leaves
\* it, or the result with the placements; and the script object with the
\* placement object as the call left it.
Executed(placed, object) ==
    [returned |-> IF placed.status # "returned" THEN placed.status
                  ELSE ReturnedOrRaised(PlacementsProperty(placed.self.placements),
                                        "CreateElementResult(placements)"),
     script_object |-> [object EXCEPT !.placement_in_regions = placed.self]]

\* PlaceInRegions.execute(); along_edge is what IntersectionCalculus gives
\* for an axis along a vertical edge of a polygon.
execute(object, along_edge) ==
    IF /\ object.PlacementType = 2
       /\ IsPolygonalPlacementInRegions(object.placement_in_regions)
       /\ DiffersFromResultClass(object.placement_polygon_input_result)
    THEN Executed(place_by_polygon(object.placement_in_regions,
                                   object.placement_polygon_input_result,
                                   HardCodedSpacing * Scale, along_edge),
                  object)
    ELSE IF /\ IsPlacementInRegions(object.placement_in_regions)
            /\ object.placement_line_input_result # DefaultLineInteractorResult
    THEN Executed(place_in_line_looked_up(
                      object.placement_in_regions, object.RegionsString,
                      object.placement_line_input_result.input_line),
                  object)
    ELSE [returned |-> "CreateElementResult()", script_object |-> object]

\* ------------------------------------------------------------ a run of the script
\* The PythonPart from the construction of the script object on: the
\* framework starts the input, hands every mouse message and preview event
\* to the interactor of the script object, calls start_next_input when the
\* interactor returns False, hands ESC to the script object, and calls
\* execute while no interactor is active. The placement type can be changed
\* in the palette at any time. The placement object is the one the script
\* object holds: the variables of the placement object of a run of
\* placements alone stay as they are.

PlacementTypes == {1, 2}

\* The framework starts an interactor the script object has constructed.
Started(interactor) ==
    IF interactor.kind = "LineInteractor" THEN start_input_of_line(interactor)
    ELSE IF /\ interactor.kind = "PolygonalPlacementInteractor"
            /\ interactor.polygon_input = NoPolygonInput
    THEN start_input_of_polygon(interactor)
    ELSE interactor

\* The run ends with a cancelled input and with the creation of the elements.
ScriptEnded == handled.returned \in {"CANCEL_INPUT", "CREATE_ELEMENTS"}

InitScript ==
    /\ string = <<>>
    /\ diameter = 0
    /\ parse_result = NotCalled
    /\ bar_data = [Position |-> 1, Diameter |-> SelectedBarDiameter]
    /\ covers = [start |-> 30 * Scale, end |-> 30 * Scale]
    /\ world_to_uvs = IdentityMatrix
    /\ cut_line = NoLine
    /\ placements = <<>>
    /\ heap = EmptyHeap
    /\ pc = "idle"
    /\ frame = NoFrame
    /\ last = NoCall
    /\ read = "none"
    /\ util_call = NoUtilCall
    /\ util_outcome = NotCalled
    /\ \E placement_type \in PlacementTypes, regions_string \in RegionsStrings :
           LET constructed ==
                   set_current_mode(ConstructedScriptObject(placement_type, regions_string),
                                    NoInteractor, "SHAPE_CUT")
           IN  /\ script_object = constructed.script_object
               /\ script_object_interactor = constructed.interactor
    /\ handled = NoEvent

ScriptStartInput ==
    LET started == start_input(script_object, script_object_interactor)
    IN  /\ handled = NoEvent
        /\ script_object' = started.script_object
        /\ script_object_interactor' = Started(started.interactor)
        /\ handled' = Event("start_input", "none", "None", ZeroLine)
        /\ UNCHANGED <<parse_vars, place_vars, util_call, util_outcome>>

\* What the framework does with the return value of process_mouse_msg
AfterMouseMsg(mouse_msg, done, input_view) ==
    LET written == WithResultOf(script_object, done.interactor)
        next == IF done.returned = "False"
                THEN start_next_input(written, done.interactor, input_view)
                ELSE Script(written, done.interactor)
    IN  /\ script_object' = next.script_object
        /\ script_object_interactor' =
               IF done.returned = "False" THEN Started(next.interactor)
               ELSE next.interactor
        /\ handled' = Event("process_mouse_msg", mouse_msg, done.returned, done.preview)
        /\ UNCHANGED <<parse_vars, place_vars, util_call, util_outcome>>

\* A mouse message while an element is to be selected: a click on a bar
\* stores it and the interactor ends; on a move and elsewhere the input goes
\* on.
SelectMouseMsg(mouse_msg, selected, input_view) ==
    /\ handled # NoEvent
    /\ ~ScriptEnded
    /\ script_object_interactor.kind = "SingleElementSelectInteractor"
    /\ AfterMouseMsg(mouse_msg,
                     IF mouse_msg = "move" \/ selected = SingleElementSelectResult
                     THEN Handled("True", script_object_interactor, ZeroLine)
                     ELSE Handled("False",
                                  [script_object_interactor EXCEPT
                                       !.interactor_result = selected],
                                  ZeroLine),
                     input_view)

ScriptLineMouseMsg(mouse_msg, input) ==
    /\ handled # NoEvent
    /\ ~ScriptEnded
    /\ script_object_interactor.kind = "LineInteractor"
    /\ \E done \in {process_mouse_msg(script_object_interactor, mouse_msg, input)} :
           AfterMouseMsg(mouse_msg, done, input.view)

PolygonMouseMsg(mouse_msg, polygon, selection) ==
    /\ handled # NoEvent
    /\ ~ScriptEnded
    /\ script_object_interactor.kind = "PolygonalPlacementInteractor"
    /\ \E done \in {process_mouse_msg_of_polygon(script_object_interactor, mouse_msg,
                                                 polygon, selection)} :
           AfterMouseMsg(mouse_msg, done, UvsTransformation(selection.view))

\* on_preview_draw and on_mouse_leave of the interactor: the polygon
\* interactor draws the preview polygons it holds and changes nothing.
ScriptPreviewDraw(event, input) ==
    /\ handled # NoEvent
    /\ ~ScriptEnded
    /\ script_object_interactor.kind \in {"LineInteractor", "PolygonalPlacementInteractor"}
    /\ \E done \in {IF script_object_interactor.kind = "PolygonalPlacementInteractor"
                    THEN Handled("None", script_object_interactor, ZeroLine)
                    ELSE IF event = "on_mouse_leave"
                    THEN on_mouse_leave(script_object_interactor, input)
                    ELSE on_preview_draw(script_object_interactor, input)} :
           /\ script_object' = WithResultOf(script_object, done.interactor)
           /\ script_object_interactor' = done.interactor
           /\ handled' = Event(event, "none", done.returned, done.preview)
    /\ UNCHANGED <<parse_vars, place_vars, util_call, util_outcome>>

ScriptEsc ==
    /\ handled # NoEvent
    /\ ~ScriptEnded
    /\ \E cancelled \in {on_cancel_function_of_interactor(script_object,
                                                          script_object_interactor)} :
       \E done \in {on_cancel_function_of_script(script_object,
                                                 script_object_interactor, cancelled)} :
           /\ script_object' = done.script_object
           /\ script_object_interactor' = Started(done.interactor)
           /\ handled' = Event("on_cancel_function", "none", done.returned, ZeroLine)
    /\ UNCHANGED <<parse_vars, place_vars, util_call, util_outcome>>

PaletteChange(placement_type) ==
    /\ handled # NoEvent
    /\ ~ScriptEnded
    /\ placement_type # script_object.PlacementType
    /\ script_object' = [script_object EXCEPT !.PlacementType = placement_type]
    /\ handled' = Event("modify_element_property", "none", "None", ZeroLine)
    /\ UNCHANGED <<parse_vars, place_vars, util_call, util_outcome,
                   script_object_interactor>>

Execute ==
    /\ handled # NoEvent
    /\ ~ScriptEnded
    /\ script_object_interactor = NoInteractor
    /\ \E along_edge \in AlongEdgeAnswers :
       \E done \in {execute(script_object, along_edge)} :
           /\ script_object' = done.script_object
           /\ handled' = Event("execute", "none", done.returned, ZeroLine)
    /\ UNCHANGED <<parse_vars, place_vars, util_call, util_outcome,
                   script_object_interactor>>

NextScript ==
    \/ ScriptStartInput
    \/ \E mouse_msg \in MouseMsgs, selected \in Bars \cup {SingleElementSelectResult},
          input_view \in Views :
           SelectMouseMsg(mouse_msg, selected, input_view)
    \/ \E mouse_msg \in MouseMsgs, input \in MouseInputs :
           ScriptLineMouseMsg(mouse_msg, input)
    \/ \E mouse_msg \in MouseMsgs, polygon \in DrawnPolygons, selection \in Selections :
           PolygonMouseMsg(mouse_msg, polygon, selection)
    \/ \E event \in {"on_preview_draw", "on_mouse_leave"}, input \in MouseInputs :
           ScriptPreviewDraw(event, input)
    \/ ScriptEsc
    \/ \E placement_type \in PlacementTypes : PaletteChange(placement_type)
    \/ Execute

SpecScript == InitScript /\ [][NextScript]_vars

\* ------------------------------------------------------------ parser claims
\* The grammar read off the string itself, without the parser: the k-th
\* '+'-separated term and the numbers written in it.

PlusAt(s) == {i \in 1..Len(s) : s[i] = "+"}

NthPlus(s, k) == CHOOSE p \in PlusAt(s) : Cardinality({q \in PlusAt(s) : q < p}) = k - 1

NthTerm(s, k) ==
    LET lo == IF k = 1 THEN 0 ELSE NthPlus(s, k - 1)
        hi == IF k = Cardinality(PlusAt(s)) + 1 THEN Len(s) + 1 ELSE NthPlus(s, k)
    IN  SubSeq(s, lo + 1, hi - 1)

StarOf(t) == CHOOSE i \in 1..Len(t) : t[i] = "*"

\* The region the grammar gives a closed term: (N*S, S, d) or (S, S, d),
\* in units of 1/unit.
ClosedRegion(t, d, unit) ==
    IF Contains(t, "*")
    THEN LET N == IntVal(SubSeq(t, 1, StarOf(t) - 1))
             S == FloatOf(SubSeq(t, StarOf(t) + 1, Len(t)), unit)
         IN  <<N * S, S, d>>
    ELSE <<FloatOf(t, unit), FloatOf(t, unit), d>>

\* The spacing written after the '$' of an open term, the '*' skipped.
OpenSpacing(t, unit) ==
    IF Len(t) >= 2 /\ t[2] = "*" THEN FloatOf(SubSeq(t, 3, Len(t)), unit)
    ELSE FloatOf(SubSeq(t, 2, Len(t)), unit)

\* The diameter handed to the parser, in the unit of its string.
DiameterIn(unit) == diameter * (unit \div Scale)

\* C1: every accepted string yields one region per '+'-separated term, in
\* order: (N*S, S, d) for a term N*S and (S, S, d) for a bare term S, the
\* product N*S to within one binary64 number of the float nearest to it and
\* every other number that float itself; and '5*100+10*125+$*250' yields
\* exactly [(500,100,d), (1250,125,d), (0,250,d)].
C1_OneRegionPerTerm ==
    parse_result.kind = "regions" =>
        LET r == parse_result.regions
            n == Cardinality(PlusAt(string)) + 1
        IN  /\ Len(r) = n
            /\ \A k \in 1..n :
                   ~Contains(NthTerm(string, k), "$")
                       => /\ r[k] = ClosedRegion(NthTerm(string, k),
                                                 DiameterIn(parse_result.unit),
                                                 parse_result.unit)
                          /\ parse_result.ulps[k][1] \in {-1, 0, 1}
                          /\ parse_result.ulps[k][2] = 0
                          /\ parse_result.ulps[k][3] = 0
            /\ string = S_three_regions
                   => /\ r = << <<500 * Scale, 100 * Scale, diameter>>,
                                <<1250 * Scale, 125 * Scale, diameter>>,
                                <<0, 250 * Scale, diameter>> >>
                      /\ parse_result.ulps
                             = << <<0, 0, 0>>, <<0, 0, 0>>, <<0, 0, 0>> >>

C1_Witness == string = S_three_regions /\ parse_result.kind = "regions"

\* C2: a string whose number of '$' is not exactly one is rejected with a
\* ValueError and no region list is returned.
C2_NotOneOpenTermRejected ==
    (parse_result # NotCalled /\ Count(string, "$") # 1)
        => parse_result = Raised("ValueError")

C2_Witness ==
    /\ string \in {S_no_open, S_two_open}
    /\ parse_result = Raised("ValueError")

\* C3 (as claimed): the region of the open term of an accepted string is
\* (0, S, d), S the spacing written after the '$', with or without a '*'.
C3_OpenTermSpacing ==
    parse_result.kind = "regions" =>
        \A k \in 1..(Cardinality(PlusAt(string)) + 1) :
            Contains(NthTerm(string, k), "$")
                => parse_result.regions[k]
                       = <<0, OpenSpacing(NthTerm(string, k), parse_result.unit),
                           DiameterIn(parse_result.unit)>>

\* The grammar of the specification: N a positive integer, S a positive
\* decimal, terms N*S, S, or the open term $*S / $S, exactly one '$'.
IsInteger(t) == Len(t) >= 1 /\ \A i \in 1..Len(t) : t[i] \in Digits

IsDecimal(t) ==
    \/ IsInteger(t)
    \/ \E i \in 2..(Len(t) - 1) :
           /\ t[i] = "."
           /\ IsInteger(SubSeq(t, 1, i - 1))
           /\ IsInteger(SubSeq(t, i + 1, Len(t)))

PositiveInteger(t) == IsInteger(t) /\ IntVal(t) > 0
PositiveDecimal(t) == IsDecimal(t) /\ FloatOf(t, UnitOf(t)) > 0

GrammarTerm(t) ==
    \/ PositiveDecimal(t)
    \/ \E i \in 2..(Len(t) - 1) :
           /\ t[i] = "*"
           /\ PositiveInteger(SubSeq(t, 1, i - 1))
           /\ PositiveDecimal(SubSeq(t, i + 1, Len(t)))
    \/ /\ Len(t) >= 2
       /\ t[1] = "$"
       /\ PositiveDecimal(SubSeq(t, IF t[2] = "*" THEN 3 ELSE 2, Len(t)))

InGrammar(s) ==
    /\ Count(s, "$") = 1
    /\ \A k \in 1..(Cardinality(PlusAt(s)) + 1) : GrammarTerm(NthTerm(s, k))

\* C4 (as claimed): a string is accepted if and only if it is in the
\* grammar; zero counts and zero spacings are rejected and a bare
\* single-digit term is accepted.
C4_AcceptsExactlyTheGrammar ==
    parse_result # NotCalled
        => (parse_result.kind = "regions" <=> InGrammar(string))

\* ------------------------------------------------------------ placement claims

\* The lengths of the first n placements of a result, summed.
RECURSIVE SpanOf(_, _)
SpanOf(result, n) ==
    IF n = 0 THEN 0
    ELSE SpanOf(result, n - 1) + VLength(VSub(result[n].to, result[n].from))

PositionsFromBase(result) ==
    \A k \in 1..Len(result) : result[k].position = bar_data.Position + (k - 1)

Line1000 == Line(<<0, 0, 0>>, <<1000 * Scale, 0, 0>>)

C5_Case ==
    /\ last.op = "place_in_line"
    /\ last.status = "returned"
    /\ last.args = <<S_2x100_open200, Line1000>>
    /\ bar_data.Diameter = 10 * Scale

C5_SpanAndPositions ==
    /\ SpanOf(last.result, Len(last.result)) + 2 * HardCodedCover * Scale = 1000 * Scale
    /\ PositionsFromBase(last.result)

\* C5 as stated: place_in_line of '2*100+$*200' with bars of diameter 10 on a
\* line of 1000 with covers 30 and 30 returns 3 placements whose spans and
\* the covers add up to 1000, numbered upwards from the position of the shape.
C5_ThreeGroups == C5_Case => (Len(last.result) = 3 /\ C5_SpanAndPositions)

\* C5, amended: the call returns 2 placements, one per term of the string,
\* the first 200 long from 30 on, the second the 740 left; spans and covers
\* add up to 1000, the position numbers are Position and Position + 1.
C5_TwoGroups ==
    C5_Case =>
        /\ Len(last.result) = 2
        /\ last.result[1].from = <<30 * Scale, 0, 0>>
        /\ last.result[1].to = <<230 * Scale, 0, 0>>
        /\ last.result[2].from = <<230 * Scale, 0, 0>>
        /\ last.result[2].to = <<970 * Scale, 0, 0>>
        /\ C5_SpanAndPositions

C5_Witness == C5_Case /\ Len(placements) = 2

\* The closed regions of a region list summed: the regions of length 0 add
\* nothing.
RECURSIVE ClosedLength(_, _)
ClosedLength(regions, n) ==
    IF n = 0 THEN 0 ELSE ClosedLength(regions, n - 1) + regions[n][1]

PairLength(pair) == VLength(VSub(pair[2], pair[1]))

\* C6: in place_in_line, for every region list the parser returns and every
\* line the regions fit on, the anchor pairs are one per region; every
\* closed region is as long as its count times its spacing; the closed
\* lengths and the length of the open region add up to the length of the
\* line less the two covers handed to the layout; the first pair starts a
\* cover behind the line start and every pair ends where the next starts.
C6_LayoutInvariant ==
    pc = "line_loop" =>
        LET pairs == frame.region_start_end_points
            regions == frame.placement_regions
            line == LineInUnit(frame.args[2], frame.unit)
            n == Len(regions)
            open == {i \in 1..n : regions[i][1] = 0}
            usable == VLength(VSub(line.EndPoint, line.StartPoint))
                          - 2 * HardCodedCover * frame.unit
        IN  /\ Len(pairs) = n
            /\ Cardinality(open) = 1
            /\ \A i \in (1..n) \ open : PairLength(pairs[i]) = regions[i][1]
            /\ \A i \in open :
                   ClosedLength(regions, n) + PairLength(pairs[i]) = usable
            /\ pairs[1][1] = VAdd(line.StartPoint,
                                  VTimes(VUnit(VSub(line.EndPoint, line.StartPoint)),
                                         HardCodedCover * frame.unit))
            /\ \A i \in 1..(n - 1) : pairs[i][2] = pairs[i + 1][1]

C6_Witness ==
    /\ pc = "line_loop"
    /\ Len(frame.placement_regions) = 3
    /\ frame.idx = 2

\* C7: when place_in_line or place_by_polygon has returned, the k-th
\* placement of the list (k from 0) has position number Position + k, also
\* where a polygon without bars has got no placement.
C7_PositionsInOrder ==
    (last.status = "returned" /\ last.op \in {"place_in_line", "place_by_polygon"})
        => PositionsFromBase(last.result)

C7_Witness ==
    /\ last.op = "place_by_polygon"
    /\ last.status = "returned"
    /\ last.args[1] = NarrowMiddleCell
    /\ Len(last.result) = 2
    /\ last.result[2].position = 8

\* The shapes the running method works on.
WorkingShapes ==
    IF pc = "line_loop" THEN {frame.moved_shape}
    ELSE IF pc = "polygon_loop" THEN {frame.start_shape}
    ELSE {}

\* The shape objects of the placements, one entry per shape held.
HeldShapes ==
    [i \in 1..Len(placements) |-> placements[i].start_shape]
        \o SelectSeq([i \in 1..Len(placements) |-> placements[i].end_shape],
                     LAMBDA id : id # 0)

NoSharedShape ==
    /\ \A i, j \in 1..Len(HeldShapes) : i # j => HeldShapes[i] # HeldShapes[j]
    /\ ShapeIds(placements) \cap WorkingShapes = {}

\* A turn of a loop leaves the placements made before it as they were, and
\* a turn of the loop of place_by_polygon leaves the start shape as it was.
TurnKeepsShapes ==
    pc \in {"line_loop", "polygon_loop"} =>
        /\ Len(placements') >= Len(placements)
        /\ \A k \in 1..Len(placements) :
               PlacementValues(placements', heap')[k] = PlacementValues(placements, heap)[k]
        /\ (pc = "polygon_loop" /\ pc' = "polygon_loop")
               => heap'[frame.start_shape] = heap[frame.start_shape]

\* C8: no shape object is held by two placements or twice by one, none is
\* the shape the running method goes on moving and distorting, and no turn
\* of a loop changes a placement made before or the start shape the
\* regions of place_by_polygon are copied from.
C8_PlacementsOwnTheirShapes ==
    [][NoSharedShape /\ NoSharedShape' /\ TurnKeepsShapes]_vars

\* C9: place_in_line called again with the string and the line of the call
\* before it, which returned, leaves the list with what that call left: as
\* many placements, equal one by one.  The bending shape is a function of
\* the geometry of the element and of the view, and no step changes either.
C9_PlaceInLineIdempotent ==
    [][ /\ (pc = "line_loop" /\ pc' = "idle" /\ frame.repeat)
            => /\ last'.result = last.result
               /\ PlacementValues(placements', heap') = last.result
        /\ world_to_uvs' = world_to_uvs ]_vars

C9_Witness ==
    /\ last.op = "place_in_line"
    /\ last.status = "returned"
    /\ last.repeat
    /\ Len(last.result) = 3

\* C10: a call of generate_preview_placements never ends with an exception.
C10_PreviewNeverRaises ==
    last.caller = "generate_preview_placements" => last.status = "returned"

\* The cut line lies in the plane of the placement polygon, resp. along the
\* view direction onto it.
CutPerpendicularToView(placement_data) ==
    VDot(ViewDirection(placement_data), cut_direction(cut_line, world_to_uvs)) = 0

CutParallelToView(placement_data) ==
    Abs(VDot(ViewDirection(placement_data), cut_direction(cut_line, world_to_uvs))) = 1

\* C14 as stated: place_by_polygon with the cut line parallel to the view
\* direction fails before any placement is made: its loop is never entered.
C14_ParallelCutFails ==
    pc = "polygon_loop" => ~CutParallelToView(frame.args[1])

\* C14, amended: place_by_polygon fails with ValueError when the cut line is
\* perpendicular to the view direction: its loop is not entered, and the
\* failing call leaves the placements of the call before as they were.
C14_PerpendicularCutFails ==
    [][ /\ pc' = "polygon_loop" => ~CutPerpendicularToView(frame'.args[1])
        /\ (/\ pc = "idle" /\ pc' = "idle"
            /\ last'.op = "place_by_polygon"
            /\ CutPerpendicularToView(last'.args[1]))
               => /\ last'.status = "ValueError"
                  /\ placements' = placements
                  /\ heap' = heap ]_vars

C14_Witness ==
    /\ last.op = "place_by_polygon"
    /\ last.status = "ValueError"
    /\ CutPerpendicularToView(last.args[1])
    /\ Len(placements) = 2
    /\ last.result = PlacementValues(placements, heap)

\* ------------------------------------------------------------ utility claims

Distorted == util_call.op = "distort_shape" /\ util_outcome.kind = "distorted"

ValidIndices ==
    /\ util_call.top_vertices # {}
    /\ \A i \in util_call.top_vertices : i < Len(util_call.shape)

\* C11: after distort_shape(shape, target), for a non-empty set of valid
\* marked indices, get_distortion_dimension(shape) is the target, whichever
\* vertices are marked.
C11_DimensionIsTarget ==
    (Distorted /\ ValidIndices) =>
        get_distortion_dimension(util_outcome.polyline, util_call.distortion_vector)
            = util_call.new_dimension

\* The vector distort_shape moves by: along the distortion vector, as long
\* as the new dimension less the dimension of the shape.
MoveVector ==
    VTimes(util_call.distortion_vector,
           util_call.new_dimension
               - get_distortion_dimension(util_call.shape, util_call.distortion_vector))

\* C12: distort_shape moves the vertices marked, each by the vector of
\* length target less dimension along the distortion vector, and leaves the
\* other vertices, their number and their order as they were.
C12_OnlyMarkedVerticesMove ==
    Distorted =>
        /\ Len(util_outcome.polyline) = Len(util_call.shape)
        /\ \A i \in 1..Len(util_call.shape) :
               util_outcome.polyline[i] =
                   IF (i - 1) \in util_call.top_vertices
                   THEN VAdd(util_call.shape[i], MoveVector)
                   ELSE util_call.shape[i]

C12_Witness ==
    /\ Distorted
    /\ util_call.top_vertices = {2, 3}
    /\ Len(util_call.shape) = 5
    /\ util_call.new_dimension = 540 * Scale
    /\ util_outcome.polyline # util_call.shape

IndexOutOfRange == \E i \in util_call.top_vertices : i >= Len(util_call.shape)

\* C13: distort_shape with a marked index not below the number of vertices
\* of the shape raises ValueError and leaves the polyline as it was.
C13_IndexOutOfRangeRaises ==
    (util_call.op = "distort_shape" /\ util_outcome # NotCalled /\ IndexOutOfRange) =>
        /\ util_outcome.kind = "ValueError"
        /\ util_outcome.polyline = util_call.shape

C13_Witness ==
    /\ util_call.op = "distort_shape"
    /\ util_outcome.kind = "ValueError"
    /\ util_call.top_vertices = {1, 4}
    /\ Len(util_call.shape) = 4

\* ------------------------------------------------------------ polygon claims

Analysed == util_call.op = "analyse_input_polygon" /\ util_outcome # NotCalled

\* The placement direction in the view: the normal of the shape, flat.
PlacementDirection ==
    LET v == Rotate(util_call.world_to_uvs, util_call.shape_nv) IN <<v[1], v[2]>>

\* The coordinate of a point of the view along the placement direction.
Along(p) == p[1] * PlacementDirection[1] + p[2] * PlacementDirection[2]

\* The edges of the input polygon parallel to the local Y axis: those
\* perpendicular to the placement direction.
YParallelEdges ==
    {i \in 1..(Len(util_call.polygon) - 1) :
        Along(util_call.polygon[i]) = Along(util_call.polygon[i + 1])}

NormalizedInput ==
    IF SignedArea2(util_call.polygon) > 0 THEN util_call.polygon
    ELSE ReversePolygon(util_call.polygon)

C15_Case ==
    /\ Analysed
    /\ IsValidPolygon(util_call.polygon)
    /\ PlacementDirection # <<0, 0>>
    /\ Cardinality(YParallelEdges) # 2

\* C15 as stated: for a previewable polygon whose edges parallel to the
\* local Y axis are not exactly two, analyse_input_polygon returns
\* INVALID_FOR_POLYGONAL_PLACEMENT as a value and with it no polygons.
C15_RejectedWithNoPolygons ==
    C15_Case =>
        /\ util_outcome.kind = "INVALID_FOR_POLYGONAL_PLACEMENT"
        /\ util_outcome.polygons = <<>>

\* C15, amended: for a previewable polygon whose edges parallel to the
\* local Y axis are not exactly two, analyse_input_polygon returns
\* INVALID_FOR_POLYGONAL_PLACEMENT as a value; the list it returns with it
\* holds one polygon, the input polygon, counterclockwise and not split,
\* and the matrix is the identity.
C15_InputPolygonReturned ==
    C15_Case =>
        /\ util_outcome.kind = "INVALID_FOR_POLYGONAL_PLACEMENT"
        /\ util_outcome.polygons = <<NormalizedInput>>
        /\ util_outcome.world_to_local = IdentityMatrix

C15_Witness ==
    /\ C15_Case
    /\ util_call.polygon = ThreeVerticalEdges
    /\ Cardinality(YParallelEdges) = 3
    /\ ~util_call.for_preview
    /\ util_outcome.kind = "INVALID_FOR_POLYGONAL_PLACEMENT"

\* The local X of a point of a returned polygon: for the preview the
\* polygons are in the view, else in the world, and the matrix returned
\* brings them into the local frame.
LocalX(p) ==
    IF util_call.for_preview THEN Along(p)
    ELSE Transform(util_outcome.world_to_local, p)[1]

CellXs(cell) == {LocalX(cell[j]) : j \in 1..Len(cell)}

CellEdgeAt(cell, x) == {cell[j] : j \in {j \in 1..Len(cell) : LocalX(cell[j]) = x}}

\* The number of distinct coordinates of the corners of the input polygon
\* strictly between its two end caps.
CornersBetweenCaps ==
    LET caps == {Along(util_call.polygon[i]) : i \in YParallelEdges}
        corners == {Along(util_call.polygon[i]) : i \in 1..Len(util_call.polygon)}
    IN  Cardinality({x \in corners : MinOf(caps) < x /\ x < MaxOf(caps)})

\* C16: when analyse_input_polygon returns VALID, the polygons returned are
\* k + 1 quadrilaterals, k the number of distinct corner coordinates
\* strictly between the two end caps; they follow each other from left to
\* right, the right edge of each the left edge of the next; a convex
\* quadrilateral with two vertical caps gives VALID and one polygon.
C16_CellsPartitionThePolygon ==
    /\ (Analysed /\ util_outcome.kind = "VALID") =>
           LET cells == util_outcome.polygons
           IN  /\ Len(cells) = CornersBetweenCaps + 1
               /\ \A i \in 1..Len(cells) :
                      /\ CountOf(cells[i]) = 5
                      /\ cells[i][1] = cells[i][5]
                      /\ Cardinality(CellXs(cells[i])) = 2
               /\ \A i \in 1..(Len(cells) - 1) :
                      /\ MaxOf(CellXs(cells[i])) = MinOf(CellXs(cells[i + 1]))
                      /\ CellEdgeAt(cells[i], MaxOf(CellXs(cells[i])))
                             = CellEdgeAt(cells[i + 1], MinOf(CellXs(cells[i + 1])))
    /\ (/\ Analysed
        /\ util_call.polygon = ConvexQuadrilateral
        /\ Cardinality(YParallelEdges) = 2
        /\ PlacementDirection # <<0, 0>>) =>
           /\ util_outcome.kind = "VALID"
           /\ Len(util_outcome.polygons) = 1

C16_Witness ==
    /\ Analysed
    /\ util_outcome.kind = "VALID"
    /\ Len(util_outcome.polygons) = 3
    /\ ~util_call.for_preview
    /\ util_call.world_to_uvs = Reverse(SectionToWorld)

\* ------------------------------------------------------------ to-world claims

ToWorldAsked ==
    util_call.op \in {"uvs_to_world", "local_to_world"} /\ util_outcome # NotCalled

\* C17: asking a frame for its to-world matrix fails with the error of a
\* transform without inverse whenever the reference matrix cannot be
\* inverted, and a matrix returned is the inverse of the reference matrix.
C17_ToWorldIsInverseOrFails ==
    ToWorldAsked =>
        /\ ~ReverseSucceeds(util_call.matrix) => util_outcome.kind = "ValueError"
        /\ util_outcome.kind = "returned"
               => Compose(util_call.matrix, util_outcome.matrix) = IdentityMatrix

\* ------------------------------------------------------------ result claims

\* C18: a read of the placements property before any call of a place method
\* fails with RuntimeError, and a read after a call of place_in_line or
\* place_by_polygon that returned gives the list of that call.
C18_ReadAfterReturnSucceeds ==
    /\ (last.op = "none" /\ read # "none") => read = "RuntimeError"
    /\ (/\ last.op \in {"place_in_line", "place_by_polygon"}
        /\ last.status = "returned"
        /\ read # "none")
           => /\ read = "returned"
              /\ PlacementValues(placements, heap) = last.result

\* The length of the cross-bar segment of a placement polygon at the local
\* x of a division point: the distance of its top from its bottom edge.
SegmentLengthAt(placement_data, x) ==
    LET polygons == placement_data.elementary_polygons
        local == [n \in 1..Len(polygons) |->
                     TransformPolyline(polygons[n], placement_data.world_to_local)]
        n == CHOOSE n \in 1..Len(polygons) : local[n][1][1] < x /\ x < local[n][2][1]
    IN  PointOnEdge(local[n][4], local[n][3], x)[2]
            - PointOnEdge(local[n][1], local[n][2], x)[2]

\* The dimension of a placed shape along the distortion direction, in the
\* world.
PlacedDimension(id) ==
    get_distortion_dimension(heap[id],
                             Rotate(local_to_world(frame.args[1]).matrix, DistortionVector))

\* C19: in place_by_polygon the start and the end shape of every placement
\* made are as high, along the distortion direction, as the first and the
\* last cross-bar segment of their polygon are long.
C19_ShapesAsHighAsSegments ==
    pc = "polygon_loop" =>
        \A k \in 1..Len(placements) :
            LET region == frame.placement_regions[k]
            IN  /\ PlacedDimension(placements[k].start_shape)
                       = SegmentLengthAt(frame.args[1], region.start_pnt[1])
                /\ PlacedDimension(placements[k].end_shape)
                       = SegmentLengthAt(frame.args[1], region.end_pnt[1])

\* The division points of a call of place_by_polygon, counted along the
\* local X axis from the start cover on.
Probes(placement_data, spacing) ==
    {covers.start + k * spacing :
        k \in 0..((total_length(placement_data) - covers.end - covers.start) \div spacing)}

\* The division points strictly inside the span of the n-th polygon.
ProbesInside(placement_data, spacing, n) ==
    LET polygon == TransformPolyline(placement_data.elementary_polygons[n],
                                     placement_data.world_to_local)
    IN  {x \in Probes(placement_data, spacing) : polygon[1][1] < x /\ x < polygon[2][1]}

\* The polygons with a division point inside, in the order of the polygons.
RECURSIVE Qualifying(_, _, _)
Qualifying(placement_data, spacing, n) ==
    IF n = 0 THEN <<>>
    ELSE IF ProbesInside(placement_data, spacing, n) # {}
    THEN Append(Qualifying(placement_data, spacing, n - 1), n)
    ELSE Qualifying(placement_data, spacing, n - 1)

RECURSIVE BarsIn(_, _)
BarsIn(result, n) == IF n = 0 THEN 0 ELSE BarsIn(result, n - 1) + result[n].bar_count

\* C20: place_by_polygon returns one placement per polygon with a division
\* point strictly inside its span, in the order of the polygons, with as
\* many bars as there are such points, its start shape at the first and its
\* end shape at the last of them; no placement is without bars and no
\* division point counts in two polygons.
C20_OnePlacementPerQualifyingPolygon ==
    (last.op = "place_by_polygon" /\ last.status = "returned") =>
        LET placement_data == last.args[1]
            spacing == last.args[2]
            qualifying == Qualifying(placement_data, spacing,
                                     Len(placement_data.elementary_polygons))
        IN  /\ Len(last.result) = Len(qualifying)
            /\ \A k \in 1..Len(last.result) :
                   LET inside == ProbesInside(placement_data, spacing, qualifying[k])
                   IN  /\ last.result[k].bar_count = Cardinality(inside)
                       /\ last.result[k].bar_count > 0
                       /\ \A i \in 1..Len(last.result[k].start_shape) :
                              last.result[k].start_shape[i][1] = MinOf(inside)
                       /\ \A i \in 1..Len(last.result[k].end_shape) :
                              last.result[k].end_shape[i][1] = MaxOf(inside)
            /\ BarsIn(last.result, Len(last.result))
                   <= Cardinality(Probes(placement_data, spacing))

\* ------------------------------------------------------------ cover claims

\* C21: place_in_line lays the regions out between the covers the object
\* was built with, the covers place_by_polygon trims its line by: the first
\* region starts the start cover behind the start of the line and the last
\* ends the end cover before its end.
C21_LineUsesInstanceCovers ==
    pc = "line_loop" =>
        LET pairs == frame.region_start_end_points
            line == LineInUnit(frame.args[2], frame.unit)
            direction == VUnit(VSub(line.EndPoint, line.StartPoint))
            start_cover == covers.start * (frame.unit \div Scale)
            end_cover == covers.end * (frame.unit \div Scale)
        IN  /\ pairs[1][1] = VAdd(line.StartPoint, VTimes(direction, start_cover))
            /\ pairs[Len(pairs)][2] = VSub(line.EndPoint, VTimes(direction, end_cover))

\* ------------------------------------------------------------ cut line claims

\* The vertices of the shape polygon above the line l, indices from 0.
VerticesAbove(l) ==
    {n - 1 : n \in {n \in 1..Len(ShapePolygon2D) : IsAbove(l, ShapePolygon2D[n])}}

\* C26: in a call of place_by_polygon every vertex of the shape is told
\* above or below the cut line in one orientation, the one along the view
\* direction, which is the orientation the cut line object is left in; a
\* call repeating the call before it finds the line so, leaves it so and
\* marks the same vertices.
C26_OneOrientationPerCall ==
    [][ /\ pc' = "polygon_loop" =>
               /\ VDot(ViewDirection(frame'.args[1]),
                       VUnit(Rotate(uvs_to_world(world_to_uvs),
                                    VSub(To3D(cut_line'.EndPoint),
                                         To3D(cut_line'.StartPoint))))) > 0
               /\ cut_line' \in {cut_line, ReverseLine(cut_line)}
        /\ (pc = "idle" /\ pc' = "polygon_loop") =>
               /\ frame'.top_vertices
                      = {n - 1 : n \in {n \in 1..Len(ShapePolygon2D) :
                                           IsAbove(cut_line', ShapePolygon2D[n])}}
               /\ frame'.repeat =>
                      /\ cut_line' = cut_line
                      /\ frame'.top_vertices = VerticesAbove(cut_line) ]_vars

C26_Witness ==
    /\ pc = "polygon_loop"
    /\ frame.repeat
    /\ covers.start = 50 * Scale
    /\ cut_line = CutToRight
    /\ frame.top_vertices = {2, 3}

\* ------------------------------------------------------------ error claims

\* C27: placement_regions_from_string either returns a region list or
\* fails with ValueError, whatever the string: a string that passes the
\* check of the pattern fails in no other way.
C27_OnlyValueErrorRaised ==
    parse_result.kind \in {"not called", "regions", "ValueError"}

\* C28: with no vertex of the shape marked, none of them above the cut
\* line, distort_shape does not fail and place_by_polygon goes on to make
\* its placements and returns, the shapes as high as the start shape.
C28_NoMarkedVertexStillPlaces ==
    [][ (pc = "polygon_loop" /\ frame.top_vertices = {}) =>
            \/ /\ pc' = "polygon_loop"
               /\ Len(placements') = Len(placements) + 1
            \/ last'.status = "returned" ]_vars

\* C22: ESC in a LineInteractor that has no start point stored returns
\* CANCEL_INPUT and changes nothing; ESC with a start point stored returns
\* CONTINUE_INPUT, forgets the start point and sets the view transformation
\* back to the identity, so that ESC once more returns CANCEL_INPUT.
C22_EscCancelsOrRestarts ==
    [][ handled'.event = "on_cancel_function" =>
            IF script_object_interactor.start_point = None
            THEN /\ handled'.returned = "CANCEL_INPUT"
                 /\ script_object_interactor' = script_object_interactor
            ELSE /\ handled'.returned = "CONTINUE_INPUT"
                 /\ script_object_interactor'.start_point = None
                 /\ script_object_interactor'.uvs_transform = IdentityMatrix
                 /\ script_object_interactor'.interactor_result
                        = script_object_interactor.interactor_result
                 /\ on_cancel_function(script_object_interactor').returned
                        = "CANCEL_INPUT" ]_vars

C22_Witness ==
    /\ handled.event = "on_cancel_function"
    /\ handled.returned = "CONTINUE_INPUT"
    /\ script_object_interactor.allow_uvs_input
    /\ script_object_interactor.start_point = None
    /\ script_object_interactor.uvs_transform = IdentityMatrix

\* C23: process_mouse_msg of a LineInteractor returns False, and writes the
\* input line and the element of its result, only on a click that gives a
\* line other than the zero line: the click of the end point, or the click
\* on a line to pick up while no start point is stored. Every mouse move and
\* the click that stores the start point return True and leave the input
\* line of the result as it was.
C23_ResultWrittenOnlyOnClickWithLine ==
    [][ handled'.event = "process_mouse_msg" =>
            LET before == script_object_interactor
                after == script_object_interactor'
                wrote == after.interactor_result # before.interactor_result
            IN  /\ (handled'.returned = "False" \/ wrote) =>
                       /\ handled'.mouse_msg = "click"
                       /\ handled'.returned = "False"
                       /\ after.interactor_result.input_line # ZeroLine
                       /\ \/ /\ before.start_point # None
                             /\ after.interactor_result.input_line.StartPoint
                                    = before.start_point
                          \/ /\ before.start_point = None
                             /\ before.allow_pick_up
                             /\ after.interactor_result.element = "element"
                /\ (\/ handled'.mouse_msg = "move"
                    \/ (before.start_point = None /\ after.start_point # None)) =>
                       /\ handled'.returned = "True"
                       /\ after.interactor_result.input_line
                              = before.interactor_result.input_line ]_vars

\* C24: ESC in PLACEMENT_INPUT returns CONTINUE_INPUT. With the polygonal
\* placement type the mode becomes CREATION when the interactor is the
\* polygon interactor, its analysis of the polygon is VALID and the result
\* stored differs from the default, and SHAPE_SELECTION otherwise; with
\* the line placement type the mode becomes SHAPE_SELECTION when the
\* interactor answered CANCEL_INPUT and stays PLACEMENT_INPUT otherwise. The
\* polygon interactor writes its result only when the analysis is VALID,
\* and then it writes the polygons and the matrix of the analysis.
C24_Analysed ==
    analyse_input_polygon(script_object_interactor.polygon_input.polygon, FALSE,
                          script_object_interactor.shape_nv,
                          script_object_interactor.uvs_trans)

C24_EscInPlacementInput ==
    [][ (handled'.event = "on_cancel_function"
            /\ script_object.current_mode = "PLACEMENT_INPUT") =>
            LET polygonal == script_object_interactor.kind = "PolygonalPlacementInteractor"
                valid == polygonal /\ C24_Analysed.kind = "VALID"
                cancelled == IF polygonal THEN ~valid
                             ELSE script_object_interactor.start_point = None
                stored == script_object'.placement_polygon_input_result
            IN  /\ handled'.returned = "CONTINUE_INPUT"
                /\ script_object.PlacementType = 2 =>
                       IF valid /\ stored # DefaultPolygonalPlacementInteractorResult
                       THEN script_object'.current_mode = "CREATION"
                       ELSE script_object'.current_mode = "SHAPE_SELECTION"
                /\ script_object.PlacementType = 1 =>
                       IF cancelled
                       THEN script_object'.current_mode = "SHAPE_SELECTION"
                       ELSE script_object'.current_mode = "PLACEMENT_INPUT"
                /\ polygonal =>
                       IF valid
                       THEN stored = PlacementData(C24_Analysed.polygons,
                                                   C24_Analysed.world_to_local)
                       ELSE stored = script_object.placement_polygon_input_result ]_vars

C24_Witness ==
    /\ handled.event = "on_cancel_function"
    /\ handled.returned = "CONTINUE_INPUT"
    /\ script_object.current_mode = "CREATION"
    /\ script_object.PlacementType = 2
    /\ Len(script_object.placement_polygon_input_result.elementary_polygons) > 1
    /\ script_object_interactor = NoInteractor

\* C25: execute, called with the polygonal placement type while the polygon
\* result is the default one without elementary polygons, does not call
\* place_by_polygon on that result and so does not fail in it.
C25_ExecuteSkipsTheDefaultPolygonResult ==
    [][ (/\ handled'.event = "execute"
         /\ script_object.PlacementType = 2
         /\ script_object.placement_polygon_input_result.elementary_polygons = <<>>) =>
            handled'.returned \notin {"IndexError", "ValueError"} ]_vars

\* C29: from start_input on the script object has a placement object
\* whenever its mode is PLACEMENT_INPUT or CREATION; a switch into
\* SHAPE_SELECTION leaves no placement object and an empty selection result;
\* and after every switch of the mode the interactor is the new one of that
\* mode, none in CREATION.
C29_FreshInteractor(object, interactor) ==
    IF object.current_mode = "CREATION" THEN interactor = NoInteractor
    ELSE IF object.current_mode = "SHAPE_SELECTION"
    THEN interactor = SingleElementSelectInteractor(SingleElementSelectResult)
    ELSE IF object.current_mode = "SHAPE_CUT"
    THEN /\ interactor.kind = "LineInteractor"
         /\ interactor.start_point = None
         /\ ~interactor.allow_pick_up
         /\ interactor.interactor_result = object.shape_cut_line_input_result
    ELSE \/ /\ interactor.kind = "LineInteractor"
            /\ interactor.start_point = None
            /\ interactor.allow_pick_up
            /\ interactor.interactor_result = DefaultLineInteractorResult
         \/ /\ interactor.kind = "PolygonalPlacementInteractor"
            /\ interactor.polygon_input = PolygonInput
            /\ interactor.interactor_result = DefaultPolygonalPlacementInteractorResult

C29_ModesAndPlacementObject ==
    [][ handled' # NoEvent =>
            /\ script_object'.current_mode \in {"PLACEMENT_INPUT", "CREATION"} =>
                   script_object'.placement_in_regions # NoPlacementInRegions
            /\ (/\ script_object'.current_mode = "SHAPE_SELECTION"
                /\ script_object.current_mode # "SHAPE_SELECTION") =>
                   /\ script_object'.placement_in_regions = NoPlacementInRegions
                   /\ script_object'.shape_selection_result = SingleElementSelectResult
            /\ script_object'.current_mode # script_object.current_mode =>
                   C29_FreshInteractor(script_object', script_object_interactor') ]_vars

C29_Witness ==
    /\ handled.event = "on_cancel_function"
    /\ handled.returned = "CONTINUE_INPUT"
    /\ script_object.current_mode = "SHAPE_SELECTION"
    /\ script_object.shape_cut_line_input_result # DefaultLineInteractorResult
    /\ script_object.placement_in_regions = NoPlacementInRegions
    /\ script_object.shape_selection_result = SingleElementSelectResult
    /\ script_object_interactor.kind = "SingleElementSelectInteractor"

====
